---- MODULE Spec2Model ----
(***************************************************************************)
(* Order lifecycle, dispatch and payout ledger of the Petrotech backend.   *)
(* Every HTTP handler that writes an order, a driver or a payout row is an *)
(* action.  Spec runs each handler to completion (one command at a time);  *)
(* SpecAssignRace and SpecPayoutRace split a handler at its awaits so that *)
(* two requests interleave between a read and the write that follows it.   *)
(***************************************************************************)
EXTENDS Integers, Sequences, FiniteSets, TLC

VARIABLES
    orders,          \* table "orders": id -> row
    chargingOrders,  \* table "charging_orders": id -> row
    drivers,         \* table "drivers": id -> row
    payouts,         \* table "driver_payouts": sequence of rows, in insertion order
    transfers,       \* transfers the payout rail executed: sequence of [driverId, amount]
    reqs,            \* requests in flight (race specifications): process -> frame
    last,            \* the response of the handler that ran last
    refunded,        \* the processor's books: payment intent -> amount refunded so far
    locations,       \* table "driver_locations": driverId -> row
    notifications,   \* table "driver_notifications": sequence of rows
    tasks            \* notification promises a handler started and did not await

vars == <<orders, chargingOrders, drivers, payouts, transfers, reqs, last,
          refunded, locations, notifications, tasks>>

(* What the order, dispatch and payout specifications leave alone. *)
sideTables == <<refunded, locations, notifications, tasks>>

----------------------------------------------------------------------------
(* Values *)

NULL == "NULL"                 \* SQL NULL / an absent request field
Date == "date"                 \* new Date()

OrderStatus == {"PENDING", "CONFIRMED", "DISPATCHED", "IN_TRANSIT", "DELIVERED", "CANCELLED"}
ChargingOrderStatus == {"PENDING", "CONFIRMED", "ASSIGNED", "IN_PROGRESS", "COMPLETED", "CANCELLED"}
PaymentStatus == {"PENDING", "PAID", "FAILED", "REFUNDED"}
PaymentMethod == {"ONLINE", "CASH_ON_DELIVERY", "CARD_ON_DELIVERY"}
PayoutStatus == {"PENDING", "SUCCEEDED", "FAILED"}

MIN_PAYOUT_AMOUNT == 5         \* dollars

(* Bounds of the model *)
MaxPayoutRows == 2             \* rows the payout ledger may hold
MaxAmount == 8                 \* largest payout amount requested, in dollars

OrderIds == {"o1"}
ChargingOrderIds == {"c1"}
OrderArgs == OrderIds \cup {"o0"}               \* o0: an id with no orders row
ChargingOrderArgs == ChargingOrderIds \cup {"c0"}
Users == {"u1", "u2"}          \* customers; u1 places the orders
DriverIds == {"d1", "d2"}      \* rows of the drivers table
DriverArgs == DriverIds \cup {"dx"}   \* dx: an id with no drivers row
FlagDrivers == {"d1"}          \* drivers whose isAvailable / isActive are updated
Reasons == {NULL, "changed my mind"}
Procs == {"p1", "p2"}          \* concurrent requests of the race specifications

(* The frame of a request in flight: where it stands and what it read. *)
Frame(pc, op, orderId, driverId, amount) ==
    [pc |-> pc, op |-> op, orderId |-> orderId, driverId |-> driverId, amount |-> amount,
     read |-> [totalEarned |-> 0], stripeTransferId |-> NULL, result |-> "none"]
Idle == Frame("idle", "none", NULL, NULL, 0)
NoResponse == [op |-> "none", result |-> "none"]
Response(op, result) == [op |-> op, result |-> result]

----------------------------------------------------------------------------
(* Rows *)

(* Mutant: an order paid online starts as PAID. *)
NewOrderOnlinePaid(userId, paymentMethod, deliveryFee, tip) ==
    [userId |-> userId, driverId |-> NULL, status |-> "PENDING",
     paymentMethod |-> paymentMethod,
     paymentStatus |-> IF paymentMethod = "ONLINE" THEN "PAID" ELSE "PENDING",
     deliveredAt |-> NULL, cancelledAt |-> NULL, cancellationReason |-> NULL,
     deliveryFee |-> deliveryFee, tip |-> tip]

NewOrder(userId, paymentMethod, deliveryFee, tip) ==
    [userId |-> userId, driverId |-> NULL, status |-> "PENDING",
     paymentMethod |-> paymentMethod, paymentStatus |-> "PENDING",
     deliveredAt |-> NULL, cancelledAt |-> NULL, cancellationReason |-> NULL,
     deliveryFee |-> deliveryFee, tip |-> tip]

NewChargingOrder(userId, paymentMethod, deliveryFee, tip) ==
    [userId |-> userId, driverId |-> NULL, status |-> "PENDING",
     paymentMethod |-> paymentMethod, paymentStatus |-> "PENDING",
     startedAt |-> NULL, completedAt |-> NULL, cancelledAt |-> NULL,
     cancellationReason |-> NULL, deliveryFee |-> deliveryFee, tip |-> tip]

NewDriver(stripeConnectAccountId) ==
    [isAvailable |-> TRUE, isActive |-> TRUE,
     stripeConnectAccountId |-> stripeConnectAccountId]

----------------------------------------------------------------------------
(* Driver availability check shared by the admin handlers:                 *)
(* findUnique, then 404 without a row, 400 unless isAvailable && isActive. *)

DriverCheck(driverTable, driverId) ==
    IF driverId \notin DOMAIN driverTable THEN "driver_not_found"
    ELSE IF ~driverTable[driverId].isAvailable \/ ~driverTable[driverId].isActive
         THEN "driver_unavailable"
    ELSE "ok"

(* The row prisma.order.update leaves, for the updateData each handler     *)
(* builds.  row is the stored row at the time of the write, read the row   *)
(* the handler fetched before (the same row when the handler runs alone).  *)

(* Mutant: the delivery settles the payment whatever the method and the    *)
(* payment status were.                                                    *)
UpdateOrderStatusWriteSettlesAll(row, read, status, driverId) ==
    LET s1 == [row EXCEPT !.status = status]
        s2 == IF driverId # NULL THEN [s1 EXCEPT !.driverId = driverId] ELSE s1
        s3 == IF status = "DELIVERED" THEN [s2 EXCEPT !.deliveredAt = Date] ELSE s2
    IN  IF status = "DELIVERED" THEN [s3 EXCEPT !.paymentStatus = "PAID"] ELSE s3

UpdateOrderStatusWrite(row, read, status, driverId) ==
    LET s1 == [row EXCEPT !.status = status]
        s2 == IF driverId # NULL THEN [s1 EXCEPT !.driverId = driverId] ELSE s1
        s3 == IF status = "DELIVERED" THEN [s2 EXCEPT !.deliveredAt = Date] ELSE s2
    IN  IF status = "DELIVERED" /\ read.paymentStatus = "PENDING"
           /\ read.paymentMethod # "ONLINE"
        THEN [s3 EXCEPT !.paymentStatus = "PAID"]
        ELSE s3

(* Mutant: the assignment confirms the order whatever status it had. *)
AssignDriverWriteAlwaysConfirms(row, read, driverId) ==
    [row EXCEPT !.driverId = driverId, !.status = "CONFIRMED"]

AssignDriverWrite(row, read, driverId) ==
    [row EXCEPT !.driverId = driverId,
                !.status = IF read.status = "PENDING" THEN "CONFIRMED" ELSE read.status]

(* Mutant: the driver's DELIVERED update forgets to settle the payment. *)
UpdateFuelOrderStatusWriteNoSettle(row, read, status) ==
    LET s1 == [row EXCEPT !.status = status]
        s2 == IF status = "DELIVERED" THEN [s1 EXCEPT !.deliveredAt = Date] ELSE s1
    IN  IF status = "CANCELLED" THEN [s2 EXCEPT !.cancelledAt = Date] ELSE s2

UpdateFuelOrderStatusWrite(row, read, status) ==
    LET s1 == [row EXCEPT !.status = status]
        s2 == IF status = "DELIVERED" THEN [s1 EXCEPT !.deliveredAt = Date] ELSE s1
        s3 == IF status = "DELIVERED" /\ read.paymentStatus = "PENDING"
                 /\ read.paymentMethod # "ONLINE"
              THEN [s2 EXCEPT !.paymentStatus = "PAID"]
              ELSE s2
    IN  IF status = "CANCELLED" THEN [s3 EXCEPT !.cancelledAt = Date] ELSE s3

(* Mutant: the cancel check lets a dispatched order through. *)
CancelOrderCheckNoDispatchGuard(orderTable, orderId, userId) ==
    IF orderId \notin DOMAIN orderTable \/ orderTable[orderId].userId # userId
    THEN "order_not_found"
    ELSE IF orderTable[orderId].status = "DELIVERED" THEN "cannot_cancel_delivered"
    ELSE IF orderTable[orderId].status = "CANCELLED" THEN "already_cancelled"
    ELSE "ok"

(* orderService.cancelOrder: the error it throws for the row it read.      *)
CancelOrderCheck(orderTable, orderId, userId) ==
    IF orderId \notin DOMAIN orderTable \/ orderTable[orderId].userId # userId
    THEN "order_not_found"
    ELSE IF orderTable[orderId].status = "DELIVERED" THEN "cannot_cancel_delivered"
    ELSE IF orderTable[orderId].status = "CANCELLED" THEN "already_cancelled"
    ELSE IF orderTable[orderId].status \in {"DISPATCHED", "IN_TRANSIT"}
         THEN "already_dispatched"
    ELSE "ok"

(* A reason of undefined leaves the column as it is. *)
CancelOrderWrite(row, reason) ==
    [row EXCEPT !.status = "CANCELLED", !.cancelledAt = Date,
                !.cancellationReason = IF reason = NULL THEN @ ELSE reason]

----------------------------------------------------------------------------
(* Fuel order handlers, each run to completion *)

AdminUpdateOrderStatusResult(id, driverId) ==
    IF id \notin DOMAIN orders THEN "order_not_found"
    ELSE IF driverId # NULL THEN DriverCheck(drivers, driverId)
    ELSE "ok"

AdminUpdateOrderStatus(id, status, driverId) ==
    LET result == AdminUpdateOrderStatusResult(id, driverId) IN
    /\ orders' = IF result = "ok"
                 THEN [orders EXCEPT ![id] =
                          UpdateOrderStatusWrite(orders[id], orders[id], status, driverId)]
                 ELSE orders
    /\ last' = Response("admin.updateOrderStatus", result)
    /\ UNCHANGED <<chargingOrders, drivers, payouts, transfers, reqs>>

AdminAssignDriverResult(id, driverId) ==
    IF id \notin DOMAIN orders THEN "order_not_found"
    ELSE DriverCheck(drivers, driverId)

(* Mutant: the assignment takes the driver out of the available ones. *)
AdminAssignDriverTakesDriver(id, driverId) ==
    LET result == AdminAssignDriverResult(id, driverId) IN
    /\ orders' = IF result = "ok"
                 THEN [orders EXCEPT ![id] = AssignDriverWrite(orders[id], orders[id], driverId)]
                 ELSE orders
    /\ drivers' = IF result = "ok"
                  THEN [drivers EXCEPT ![driverId].isAvailable = FALSE]
                  ELSE drivers
    /\ last' = Response("admin.assignDriver", result)
    /\ UNCHANGED <<chargingOrders, payouts, transfers, reqs>>

AdminAssignDriver(id, driverId) ==
    LET result == AdminAssignDriverResult(id, driverId) IN
    /\ orders' = IF result = "ok"
                 THEN [orders EXCEPT ![id] = AssignDriverWrite(orders[id], orders[id], driverId)]
                 ELSE orders
    /\ last' = Response("admin.assignDriver", result)
    /\ UNCHANGED <<chargingOrders, drivers, payouts, transfers, reqs>>

DriverUpdateFuelOrderStatusResult(caller, id) ==
    IF id \notin DOMAIN orders \/ orders[id].driverId # caller
    THEN "order_not_found"
    ELSE "ok"

DriverUpdateFuelOrderStatus(caller, id, status) ==
    LET result == DriverUpdateFuelOrderStatusResult(caller, id) IN
    /\ orders' = IF result = "ok"
                 THEN [orders EXCEPT ![id] =
                          UpdateFuelOrderStatusWrite(orders[id], orders[id], status)]
                 ELSE orders
    /\ last' = Response("driver.updateFuelOrderStatus", result)
    /\ UNCHANGED <<chargingOrders, drivers, payouts, transfers, reqs>>

CustomerCancelOrder(caller, id, reason) ==
    LET result == CancelOrderCheck(orders, id, caller) IN
    /\ orders' = IF result = "ok"
                 THEN [orders EXCEPT ![id] = CancelOrderWrite(orders[id], reason)]
                 ELSE orders
    /\ last' = Response("order.cancel", result)
    /\ UNCHANGED <<chargingOrders, drivers, payouts, transfers, reqs>>

----------------------------------------------------------------------------
(* Charging order handlers *)

UpdateChargingOrderStatusWrite(row, read, status, driverId) ==
    LET s1 == [row EXCEPT !.status = status]
        s2 == IF driverId # NULL THEN [s1 EXCEPT !.driverId = driverId] ELSE s1
        s3 == IF status = "IN_PROGRESS" THEN [s2 EXCEPT !.startedAt = Date] ELSE s2
        s4 == IF status = "COMPLETED" THEN [s3 EXCEPT !.completedAt = Date] ELSE s3
        s5 == IF status = "CANCELLED" THEN [s4 EXCEPT !.cancelledAt = Date] ELSE s4
    IN  IF status = "COMPLETED" /\ read.paymentStatus = "PENDING"
           /\ read.paymentMethod # "ONLINE"
        THEN [s5 EXCEPT !.paymentStatus = "PAID"]
        ELSE s5

AssignChargingOrderDriverWrite(row, read, driverId) ==
    [row EXCEPT !.driverId = driverId,
                !.status = IF read.status = "PENDING" THEN "ASSIGNED" ELSE read.status]

DriverUpdateChargingOrderStatusWrite(row, read, status) ==
    LET s1 == [row EXCEPT !.status = status]
        s2 == IF status = "IN_PROGRESS" THEN [s1 EXCEPT !.startedAt = Date] ELSE s1
        s3 == IF status = "COMPLETED" THEN [s2 EXCEPT !.completedAt = Date] ELSE s2
        s4 == IF status = "COMPLETED" /\ read.paymentStatus = "PENDING"
                 /\ read.paymentMethod # "ONLINE"
              THEN [s3 EXCEPT !.paymentStatus = "PAID"]
              ELSE s3
    IN  IF status = "CANCELLED" THEN [s4 EXCEPT !.cancelledAt = Date] ELSE s4

(* chargingService.updateOrderStatus: no row is read and no driver is      *)
(* looked up; the update throws for a missing order row and for a driverId *)
(* that violates the foreign key to drivers.  The chargingUnitId column,   *)
(* which the same update may set, is not part of the rows modelled here.   *)
ChargingServiceUpdateOrderStatusCheck(orderTable, driverTable, orderId, status, driverId) ==
    IF status = "IN_PROGRESS" /\ driverId = NULL THEN "driver_id_required"
    ELSE IF orderId \notin DOMAIN orderTable THEN "order_not_found"
    ELSE IF driverId # NULL /\ driverId \notin DOMAIN driverTable THEN "foreign_key"
    ELSE "ok"

ChargingServiceUpdateOrderStatusWrite(row, status, driverId) ==
    LET s1 == [row EXCEPT !.status = status]
        s2 == IF driverId # NULL THEN [s1 EXCEPT !.driverId = driverId] ELSE s1
        s3 == IF status = "IN_PROGRESS" THEN [s2 EXCEPT !.startedAt = Date] ELSE s2
    IN  IF status = "COMPLETED" THEN [s3 EXCEPT !.completedAt = Date] ELSE s3

(* Mutant: a completed order is not refused. *)
ChargingCancelOrderCheckNoCompletedGuard(orderTable, orderId, userId, isAdmin) ==
    IF orderId \notin DOMAIN orderTable
       \/ (~isAdmin /\ orderTable[orderId].userId # userId)
    THEN "order_not_found"
    ELSE IF orderTable[orderId].status = "CANCELLED" THEN "already_cancelled"
    ELSE "ok"

(* chargingService.cancelOrder: an admin caller is not filtered by userId. *)
ChargingCancelOrderCheck(orderTable, orderId, userId, isAdmin) ==
    IF orderId \notin DOMAIN orderTable
       \/ (~isAdmin /\ orderTable[orderId].userId # userId)
    THEN "order_not_found"
    ELSE IF orderTable[orderId].status = "COMPLETED" THEN "cannot_cancel_completed"
    ELSE IF orderTable[orderId].status = "CANCELLED" THEN "already_cancelled"
    ELSE "ok"

AdminUpdateChargingOrderStatusResult(id, driverId) ==
    IF id \notin DOMAIN chargingOrders THEN "order_not_found"
    ELSE IF driverId # NULL THEN DriverCheck(drivers, driverId)
    ELSE "ok"

AdminUpdateChargingOrderStatus(id, status, driverId) ==
    LET result == AdminUpdateChargingOrderStatusResult(id, driverId) IN
    /\ chargingOrders' =
          IF result = "ok"
          THEN [chargingOrders EXCEPT ![id] =
                   UpdateChargingOrderStatusWrite(chargingOrders[id], chargingOrders[id],
                                                  status, driverId)]
          ELSE chargingOrders
    /\ last' = Response("admin.updateChargingOrderStatus", result)
    /\ UNCHANGED <<orders, drivers, payouts, transfers, reqs>>

AdminAssignChargingOrderDriverResult(id, driverId) ==
    IF id \notin DOMAIN chargingOrders THEN "order_not_found"
    ELSE DriverCheck(drivers, driverId)

AdminAssignChargingOrderDriver(id, driverId) ==
    LET result == AdminAssignChargingOrderDriverResult(id, driverId) IN
    /\ chargingOrders' =
          IF result = "ok"
          THEN [chargingOrders EXCEPT ![id] =
                   AssignChargingOrderDriverWrite(chargingOrders[id], chargingOrders[id],
                                                  driverId)]
          ELSE chargingOrders
    /\ last' = Response("admin.assignChargingOrderDriver", result)
    /\ UNCHANGED <<orders, drivers, payouts, transfers, reqs>>

DriverUpdateChargingOrderStatusResult(caller, id) ==
    IF id \notin DOMAIN chargingOrders \/ chargingOrders[id].driverId # caller
    THEN "order_not_found"
    ELSE "ok"

DriverUpdateChargingOrderStatus(caller, id, status) ==
    LET result == DriverUpdateChargingOrderStatusResult(caller, id) IN
    /\ chargingOrders' =
          IF result = "ok"
          THEN [chargingOrders EXCEPT ![id] =
                   DriverUpdateChargingOrderStatusWrite(chargingOrders[id],
                                                        chargingOrders[id], status)]
          ELSE chargingOrders
    /\ last' = Response("driver.updateChargingOrderStatus", result)
    /\ UNCHANGED <<orders, drivers, payouts, transfers, reqs>>

(* PATCH /charging/:id/status: any caller with the ADMIN or DRIVER role;   *)
(* the handler makes no use of who the caller is.                          *)
ChargingUpdateStatus(id, status, driverId) ==
    LET result == ChargingServiceUpdateOrderStatusCheck(chargingOrders, drivers, id,
                                                        status, driverId) IN
    /\ chargingOrders' =
          IF result = "ok"
          THEN [chargingOrders EXCEPT ![id] =
                   ChargingServiceUpdateOrderStatusWrite(chargingOrders[id], status, driverId)]
          ELSE chargingOrders
    /\ last' = Response("charging.updateStatus", result)
    /\ UNCHANGED <<orders, drivers, payouts, transfers, reqs>>

(* DELETE /charging/:id *)
ChargingCancel(caller, id, reason) ==
    LET result == ChargingCancelOrderCheck(chargingOrders, id, caller, caller = "admin") IN
    /\ chargingOrders' =
          IF result = "ok"
          THEN [chargingOrders EXCEPT ![id] = CancelOrderWrite(chargingOrders[id], reason)]
          ELSE chargingOrders
    /\ last' = Response("charging.cancel", result)
    /\ UNCHANGED <<orders, drivers, payouts, transfers, reqs>>

----------------------------------------------------------------------------
(* Payment processor callbacks *)

(* Mutant: every callback is taken to be about a fuel order. *)
NormalizeOrderTypeAlwaysFuel(value) == "fuel"

NormalizeOrderType(value) == IF value = "charging" THEN "charging" ELSE "fuel"

WebhookEvents == {"payment_intent.succeeded", "payment_intent.payment_failed", "charge.updated"}

(* The paymentStatus stripeService.handleWebhook writes for an event type; *)
(* NULL for an event it does not handle.                                   *)
WebhookPaymentStatus(eventType) ==
    IF eventType = "payment_intent.succeeded" THEN "PAID"
    ELSE IF eventType = "payment_intent.payment_failed" THEN "FAILED"
    ELSE NULL

(* Mutant: a callback about an order already in the status it reports     *)
(* puts the order back to PENDING.                                         *)
StripeWebhookWriteOnce(row, eventType) ==
    [row EXCEPT !.paymentStatus = IF @ = WebhookPaymentStatus(eventType)
                                  THEN "PENDING" ELSE WebhookPaymentStatus(eventType)]

(* The update handleWebhook makes to the row its event names. *)
StripeWebhookWrite(row, eventType) ==
    [row EXCEPT !.paymentStatus = WebhookPaymentStatus(eventType)]

(* POST /payments/webhook with a verified event whose metadata names       *)
(* orderId (NULL: none) and orderType.  A row the update does not find     *)
(* makes it throw.                                                         *)
StripeWebhookResult(eventType, orderType, orderId) ==
    IF WebhookPaymentStatus(eventType) = NULL \/ orderId = NULL THEN "ok"
    ELSE IF NormalizeOrderType(orderType) = "charging"
         THEN (IF orderId \in DOMAIN chargingOrders THEN "ok" ELSE "error")
    ELSE (IF orderId \in DOMAIN orders THEN "ok" ELSE "error")

StripeWebhook(eventType, orderType, orderId) ==
    LET result == StripeWebhookResult(eventType, orderType, orderId)
        written == result = "ok" /\ WebhookPaymentStatus(eventType) # NULL /\ orderId # NULL
    IN
    /\ orders' = IF written /\ NormalizeOrderType(orderType) = "fuel"
                 THEN [orders EXCEPT ![orderId] = StripeWebhookWrite(@, eventType)]
                 ELSE orders
    /\ chargingOrders' =
          IF written /\ NormalizeOrderType(orderType) = "charging"
          THEN [chargingOrders EXCEPT ![orderId] = StripeWebhookWrite(@, eventType)]
          ELSE chargingOrders
    /\ last' = Response("payment.handleWebhook", result)
    /\ UNCHANGED <<drivers, payouts, transfers, reqs>>

(* POST /payments/confirm: the payment intent retrieved from the processor *)
(* has a status and metadata naming orderId (NULL: none) and orderType.    *)
(* Every status other than succeeded is recorded as FAILED.                *)
IntentStatuses == {"succeeded", "requires_payment_method", "processing"}

ConfirmPaymentStatus(intentStatus) ==
    IF intentStatus = "succeeded" THEN "PAID" ELSE "FAILED"

ConfirmPaymentResult(intentStatus, orderType, orderId) ==
    IF orderId = NULL THEN "error"
    ELSE IF NormalizeOrderType(orderType) = "charging" /\ orderId \notin DOMAIN chargingOrders
    THEN "error"
    ELSE IF NormalizeOrderType(orderType) = "fuel" /\ orderId \notin DOMAIN orders
    THEN "error"
    ELSE IF intentStatus = "succeeded" THEN "ok"
    ELSE "not_succeeded"

ConfirmPayment(intentStatus, orderType, orderId) ==
    LET result == ConfirmPaymentResult(intentStatus, orderType, orderId)
        written == result # "error"
    IN
    /\ orders' = IF written /\ NormalizeOrderType(orderType) = "fuel"
                 THEN [orders EXCEPT ![orderId].paymentStatus =
                                        ConfirmPaymentStatus(intentStatus)]
                 ELSE orders
    /\ chargingOrders' =
          IF written /\ NormalizeOrderType(orderType) = "charging"
          THEN [chargingOrders EXCEPT ![orderId].paymentStatus =
                                         ConfirmPaymentStatus(intentStatus)]
          ELSE chargingOrders
    /\ last' = Response("payment.confirmPayment", result)
    /\ UNCHANGED <<drivers, payouts, transfers, reqs>>

----------------------------------------------------------------------------
(* Driver rows *)

DriverUpdateMe(caller, isAvailable) ==
    /\ drivers' = [drivers EXCEPT ![caller].isAvailable = isAvailable]
    /\ last' = Response("driver.updateMe", "ok")
    /\ UNCHANGED <<orders, chargingOrders, payouts, transfers, reqs>>

AdminUpdateDriver(id, isAvailable, isActive) ==
    /\ drivers' = [drivers EXCEPT ![id].isAvailable = isAvailable,
                                  ![id].isActive = isActive]
    /\ last' = Response("admin.updateDriver", "ok")
    /\ UNCHANGED <<orders, chargingOrders, payouts, transfers, reqs>>

----------------------------------------------------------------------------
(* Order creation.  Money is in thousandths of a cent, so that the unit    *)
(* price with its 0.095% markup is a whole number.  The order_items and    *)
(* charging_order_cars rows exist only through the nested create of their  *)
(* order, in one statement with it; they are kept in the row of the order. *)

MIN_QUANTITY == 50
MAX_QUANTITY == 5000
MAX_CARS == 10

(* Tables the creation handlers only read.  distance is what               *)
(* calculateDistance returns for the coordinates, in hundredths of a mile; *)
(* a coordinate is <<>> (null) or <<degrees>>.                             *)
Addresses ==
    [a1 |-> [userId |-> "u1", latitude |-> <<39>>, longitude |-> <<-77>>, distance |-> 250],
     a2 |-> [userId |-> "u1", latitude |-> <<>>, longitude |-> <<>>, distance |-> 0],
     a3 |-> [userId |-> "u1", latitude |-> <<0>>, longitude |-> <<-78>>, distance |-> 270000],
     a4 |-> [userId |-> "u1", latitude |-> <<38>>, longitude |-> <<-76>>, distance |-> 1000],
     a5 |-> [userId |-> "u2", latitude |-> <<39>>, longitude |-> <<-77>>, distance |-> 300]]

Products ==
    [p1 |-> [pricePerLiter |-> 100, isAvailable |-> TRUE],
     p2 |-> [pricePerLiter |-> 120, isAvailable |-> TRUE],
     p3 |-> [pricePerLiter |-> 100, isAvailable |-> FALSE]]

Car(i) == "k" \o ToString(i)
Cars ==
    [c \in {Car(i) : i \in 1 .. MAX_CARS + 1} \cup {"x1"} |->
        [userId |-> IF c = "x1" THEN "u2" ELSE "u1"]]

(* !value of a nullable number: null and 0 are both falsy. *)
JsFalsy(v) == v = <<>> \/ v[1] = 0

(* Math.round(x * 100) / 100 *)
RoundCents(x) == ((x + 500) \div 1000) * 1000

(* lib/distance: 1.25 a mile up to 3 miles, 0.95 a mile beyond, to cents. *)
CalculateDeliveryFee(distance) ==
    IF distance <= 0 THEN 0
    ELSE IF distance <= 300 THEN RoundCents(distance * 1250)
    ELSE RoundCents(375000 + (distance - 300) * 950)

(* lib/distance: 6% of the subtotal, to cents. *)
CalculateTax(subtotal) ==
    (6 * (subtotal \div 100000) + (6 * (subtotal % 100000) + 50000) \div 100000) * 1000

AddressCheck(addressId, userId) ==
    IF addressId \notin DOMAIN Addresses \/ Addresses[addressId].userId # userId
    THEN "address_not_found"
    ELSE IF JsFalsy(Addresses[addressId].latitude) \/ JsFalsy(Addresses[addressId].longitude)
    THEN "address_not_geocoded"
    ELSE "ok"

(* createOrder's loop over the items stops at the first item it refuses. *)
ItemCheck(item) ==
    IF item.productId \notin DOMAIN Products THEN "product_not_found"
    ELSE IF ~Products[item.productId].isAvailable THEN "product_unavailable"
    ELSE IF item.quantity < MIN_QUANTITY THEN "min_quantity"
    ELSE IF item.quantity > MAX_QUANTITY THEN "max_quantity"
    ELSE "ok"

ItemsCheck(items) ==
    LET refused == {i \in 1 .. Len(items) : ItemCheck(items[i]) # "ok"} IN
    IF refused = {} THEN "ok"
    ELSE ItemCheck(items[CHOOSE i \in refused : \A j \in refused : i <= j])

OrderItemRow(item) ==
    LET priceWithMarkup == (Products[item.productId].pricePerLiter * 100095) \div 100 IN
    [productId |-> item.productId, quantity |-> item.quantity,
     price |-> priceWithMarkup, subtotal |-> item.quantity * priceWithMarkup]

RECURSIVE FuelCost(_)
FuelCost(items) ==
    IF items = <<>> THEN 0
    ELSE OrderItemRow(Head(items)).subtotal + FuelCost(Tail(items))

(* Mutant: the tip is left out of the total. *)
TotalAmountWithoutTip(fuelCost, deliveryFee, tax, tip) == fuelCost + deliveryFee + tax

TotalAmount(fuelCost, deliveryFee, tax, tip) == fuelCost + deliveryFee + tax + tip

(* POST /orders: orderController.create, then orderService.createOrder. *)
CreateOrderCheck(request) ==
    IF request.items = <<>> THEN "missing_fields"
    ELSE IF request.tip < 0 THEN "invalid_tip"
    ELSE IF AddressCheck(request.addressId, request.userId) # "ok"
    THEN AddressCheck(request.addressId, request.userId)
    ELSE ItemsCheck(request.items)

CreateOrderRow(request) ==
    LET fuelCost == FuelCost(request.items)
        deliveryFee == CalculateDeliveryFee(Addresses[request.addressId].distance)
        tax == CalculateTax(fuelCost + deliveryFee)
    IN  NewOrder(request.userId, request.paymentMethod,
                 RoundCents(deliveryFee), RoundCents(request.tip))
        @@ [totalAmount |-> RoundCents(TotalAmount(fuelCost, deliveryFee, tax, request.tip)),
            fuelCost |-> RoundCents(fuelCost),
            tax |-> RoundCents(tax),
            orderItems |-> [i \in 1 .. Len(request.items) |-> OrderItemRow(request.items[i])]]

CreateOrder(request) ==
    LET result == CreateOrderCheck(request) IN
    /\ \E id \in OrderIds : id \notin DOMAIN orders
    /\ orders' = IF result = "ok"
                 THEN LET id == CHOOSE x \in OrderIds : x \notin DOMAIN orders
                      IN  (id :> CreateOrderRow(request)) @@ orders
                 ELSE orders
    /\ last' = [op |-> "order.create", result |-> result, request |-> request]
    /\ UNCHANGED <<chargingOrders, drivers, payouts, transfers, reqs>>

(* Charging prices per car, in dollars. *)
CHARGING_PRICING ==
    [ONE_HOUR |-> 25, TWO_HOURS |-> 45, FIVE_HOURS |-> 100, TWENTY_FOUR_HOURS |-> 350]

(* Mutant: the fee of one car whatever the number of cars. *)
CalculateChargingFeeOneCar(duration, numberOfCars) == CHARGING_PRICING[duration] * 100000

CalculateChargingFee(duration, numberOfCars) ==
    RoundCents(CHARGING_PRICING[duration] * numberOfCars * 100000)

(* Mutant: cars are found whoever owns them. *)
FindCarsAnyOwner(carIds, userId) ==
    {c \in DOMAIN Cars : \E i \in 1 .. Len(carIds) : carIds[i] = c}

(* prisma.car.findMany({ where: { id: { in: carIds }, userId } }) *)
FindCars(carIds, userId) ==
    {c \in DOMAIN Cars : Cars[c].userId = userId /\ \E i \in 1 .. Len(carIds) : carIds[i] = c}

(* POST /charging: chargingController.create, then                         *)
(* chargingService.createOrder.                                            *)
CreateChargingOrderCheck(request) ==
    IF request.numberOfCars = 0 THEN "missing_fields"
    ELSE IF request.numberOfCars < 1 \/ request.numberOfCars > MAX_CARS
    THEN "invalid_number_of_cars"
    ELSE IF Len(request.carIds) # request.numberOfCars THEN "car_ids_mismatch"
    ELSE IF AddressCheck(request.addressId, request.userId) # "ok"
    THEN AddressCheck(request.addressId, request.userId)
    ELSE IF Cardinality(FindCars(request.carIds, request.userId)) # Len(request.carIds)
    THEN "cars_not_found"
    ELSE "ok"

CreateChargingOrderRow(request) ==
    LET deliveryFee == CalculateDeliveryFee(Addresses[request.addressId].distance)
        baseFee == CalculateChargingFee(request.chargingDuration, request.numberOfCars)
        subtotal == baseFee + deliveryFee
        tax == CalculateTax(subtotal)
    IN  NewChargingOrder(request.userId, request.paymentMethod, deliveryFee, request.tip)
        @@ [chargingDuration |-> request.chargingDuration,
            numberOfCars |-> request.numberOfCars,
            baseFee |-> baseFee,
            tax |-> tax,
            totalAmount |-> RoundCents(subtotal + tax + request.tip),
            cars |-> request.carIds]

CreateChargingOrder(request) ==
    LET result == CreateChargingOrderCheck(request) IN
    /\ \E id \in ChargingOrderIds : id \notin DOMAIN chargingOrders
    /\ chargingOrders' =
          IF result = "ok"
          THEN LET id == CHOOSE x \in ChargingOrderIds : x \notin DOMAIN chargingOrders
               IN  (id :> CreateChargingOrderRow(request)) @@ chargingOrders
          ELSE chargingOrders
    /\ last' = [op |-> "charging.create", result |-> result, request |-> request]
    /\ UNCHANGED <<orders, drivers, payouts, transfers, reqs>>

----------------------------------------------------------------------------
(* Earnings and payouts.  Amounts are whole dollars. *)

RECURSIVE SumAmounts(_, _)
SumAmounts(table, ids) ==
    IF ids = {} THEN 0
    ELSE LET id == CHOOSE x \in ids : TRUE
         IN  table[id].deliveryFee + table[id].tip + SumAmounts(table, ids \ {id})

RECURSIVE SumPayouts(_, _, _)
SumPayouts(rows, driverId, status) ==
    IF rows = <<>> THEN 0
    ELSE (IF Head(rows).driverId = driverId /\ Head(rows).status = status
          THEN Head(rows).amount ELSE 0)
         + SumPayouts(Tail(rows), driverId, status)

Max(a, b) == IF a >= b THEN a ELSE b

(* Mutant: a delivered order counts whether or not it is paid. *)
EarnedFuelUnpaid(orderTable, driverId) ==
    SumAmounts(orderTable,
               {id \in DOMAIN orderTable :
                   /\ orderTable[id].driverId = driverId
                   /\ orderTable[id].status = "DELIVERED"})

(* getDriverEarnings, in the three queries it awaits one after the other. *)
EarnedFuel(orderTable, driverId) ==
    SumAmounts(orderTable,
               {id \in DOMAIN orderTable :
                   /\ orderTable[id].driverId = driverId
                   /\ orderTable[id].status = "DELIVERED"
                   /\ orderTable[id].paymentStatus = "PAID"})

EarnedCharging(chargingTable, driverId) ==
    SumAmounts(chargingTable,
               {id \in DOMAIN chargingTable :
                   /\ chargingTable[id].driverId = driverId
                   /\ chargingTable[id].status = "COMPLETED"
                   /\ chargingTable[id].paymentStatus = "PAID"})

(* Mutant: failed payouts count as paid out. *)
PaidOutAllRows(rows, driverId) ==
    SumPayouts(rows, driverId, "SUCCEEDED") + SumPayouts(rows, driverId, "FAILED")

PaidOut(rows, driverId) == SumPayouts(rows, driverId, "SUCCEEDED")

EarningsResult(totalEarned, totalPaidOut) ==
    [totalEarned |-> totalEarned,
     totalPaidOut |-> totalPaidOut,
     availableBalance |-> Max(0, totalEarned - totalPaidOut),
     canWithdraw |-> Max(0, totalEarned - totalPaidOut) >= MIN_PAYOUT_AMOUNT,
     minPayoutAmount |-> MIN_PAYOUT_AMOUNT]

GetDriverEarnings(orderTable, chargingTable, rows, driverId) ==
    EarningsResult(EarnedFuel(orderTable, driverId) + EarnedCharging(chargingTable, driverId),
                   PaidOut(rows, driverId))

(* requestPayout: its validations, in the order the handler makes them. *)
PayoutAmountCheck(amount) ==
    IF amount <= 0 THEN "invalid_amount" ELSE "ok"

PayoutDriverCheck(driverTable, driverId) ==
    IF driverId \notin DOMAIN driverTable THEN "driver_not_found"
    ELSE IF driverTable[driverId].stripeConnectAccountId = NULL THEN "no_payout_method"
    ELSE "ok"

(* Mutant: the request is compared with what was earned, not with what is left. *)
PayoutBalanceCheckAgainstEarned(amount, earnings) ==
    IF amount > earnings.totalEarned THEN "exceeds_balance"
    ELSE IF amount < earnings.minPayoutAmount THEN "below_minimum"
    ELSE "ok"

(* Mutant: a request for the whole balance is refused. *)
PayoutBalanceCheckBelowBalance(amount, earnings) ==
    IF amount >= earnings.availableBalance THEN "exceeds_balance"
    ELSE IF amount < earnings.minPayoutAmount THEN "below_minimum"
    ELSE "ok"

PayoutBalanceCheck(amount, earnings) ==
    IF amount > earnings.availableBalance THEN "exceeds_balance"
    ELSE IF amount < earnings.minPayoutAmount THEN "below_minimum"
    ELSE "ok"

(* Mutant: every row is written as SUCCEEDED. *)
PayoutRowAlwaysSucceeded(driverId, amount, status, stripeTransferId, failureReason) ==
    [driverId |-> driverId, amount |-> amount, status |-> "SUCCEEDED",
     stripeTransferId |-> stripeTransferId, failureReason |-> failureReason]

PayoutRow(driverId, amount, status, stripeTransferId, failureReason) ==
    [driverId |-> driverId, amount |-> amount, status |-> status,
     stripeTransferId |-> stripeTransferId, failureReason |-> failureReason]

Transfer(driverId, amount) == [driverId |-> driverId, amount |-> amount]

(* The id stripe.transfers.create returns for the n-th transfer. *)
TransferId(n) == "tr_" \o ToString(n)

(* requestPayout run to completion.  account: whether the payout rail      *)
(* finds the destination account; transfer: whether the transfer succeeds. *)
RequestPayoutResult(driverId, amount, account, transfer) ==
    LET earnings == GetDriverEarnings(orders, chargingOrders, payouts, driverId) IN
    IF PayoutAmountCheck(amount) # "ok" THEN PayoutAmountCheck(amount)
    ELSE IF PayoutDriverCheck(drivers, driverId) # "ok" THEN PayoutDriverCheck(drivers, driverId)
    ELSE IF PayoutBalanceCheck(amount, earnings) # "ok" THEN PayoutBalanceCheck(amount, earnings)
    ELSE IF account = "missing" THEN "account_not_found"
    ELSE IF transfer = "fails" THEN "transfer_failed"
    ELSE "ok"

RequestPayout(driverId, amount, account, transfer) ==
    LET result == RequestPayoutResult(driverId, amount, account, transfer) IN
    /\ Len(payouts) < MaxPayoutRows
    /\ transfers' = IF result = "ok"
                    THEN Append(transfers, Transfer(driverId, amount))
                    ELSE transfers
    /\ payouts' =
          IF result = "ok"
          THEN Append(payouts, PayoutRow(driverId, amount, "SUCCEEDED",
                                         TransferId(Len(transfers) + 1), NULL))
          ELSE IF result = "transfer_failed"
          THEN Append(payouts, PayoutRow(driverId, amount, "FAILED", NULL, "Transfer failed"))
          ELSE payouts
    /\ last' = Response("driver.requestPayout", result)
    /\ UNCHANGED <<orders, chargingOrders, drivers, reqs>>

(* getConnectOnboardingLink: a driver without a payout destination gets    *)
(* one when the account is created; a failed creation leaves the row.      *)
DriverConnectOnboarding(caller, created) ==
    /\ drivers' = IF drivers[caller].stripeConnectAccountId = NULL /\ created
                  THEN [drivers EXCEPT ![caller].stripeConnectAccountId = "acct_" \o caller]
                  ELSE drivers
    /\ last' = Response("driver.getConnectOnboardingLink",
                        IF drivers[caller].stripeConnectAccountId = NULL /\ ~created
                        THEN "error" ELSE "ok")
    /\ UNCHANGED <<orders, chargingOrders, payouts, transfers, reqs>>

----------------------------------------------------------------------------
(* Specifications: one command at a time.                                  *)
(*   Spec          the fuel order lifecycle                                *)
(*   SpecCharging  the charging order lifecycle                            *)
(*   SpecDispatch  the admin's commands on an order of either kind         *)

EmptyTable == [x \in {} |-> NULL]

(* The payment intents the processor holds, with the metadata             *)
(* createPaymentIntent gave them; pi_x is an intent made elsewhere, with   *)
(* no order in its metadata.                                               *)
Intents ==
    [pi_o1 |-> [orderId |-> "o1", orderType |-> "fuel"],
     pi_c1 |-> [orderId |-> "c1", orderType |-> "charging"],
     pi_x |-> [orderId |-> NULL, orderType |-> NULL]]

InitSide ==
    /\ refunded = [i \in DOMAIN Intents |-> 0]
    /\ locations = EmptyTable
    /\ notifications = <<>>
    /\ tasks = <<>>

InitRest ==
    /\ InitSide
    /\ drivers = [d \in DriverIds |-> NewDriver("acct_" \o d)]
    /\ payouts = <<>>
    /\ transfers = <<>>
    /\ reqs = [p \in Procs |-> Idle]
    /\ last = NoResponse

InitFuelOrder ==
    /\ \E m \in PaymentMethod : orders = [id \in OrderIds |-> NewOrder("u1", m, 5, 2)]
    /\ chargingOrders = EmptyTable

InitChargingOrder ==
    /\ orders = EmptyTable
    /\ \E m \in PaymentMethod :
          chargingOrders = [id \in ChargingOrderIds |-> NewChargingOrder("u1", m, 3, 1)]

NextDrivers ==
    \/ \E c \in FlagDrivers, a \in BOOLEAN : DriverUpdateMe(c, a)
    \/ \E d \in FlagDrivers, a \in BOOLEAN, b \in BOOLEAN : AdminUpdateDriver(d, a, b)

Init == InitFuelOrder /\ InitRest

Next ==
    \/ \E id \in OrderArgs, s \in OrderStatus, d \in DriverArgs \cup {NULL} :
          AdminUpdateOrderStatus(id, s, d) /\ UNCHANGED sideTables
    \/ \E id \in OrderArgs, d \in DriverArgs : AdminAssignDriver(id, d)
          /\ UNCHANGED sideTables
    \/ \E c \in DriverIds, id \in OrderArgs, s \in OrderStatus :
          DriverUpdateFuelOrderStatus(c, id, s) /\ UNCHANGED sideTables
    \/ \E u \in Users, id \in OrderArgs, r \in Reasons : CustomerCancelOrder(u, id, r)
          /\ UNCHANGED sideTables
    \/ \E e \in WebhookEvents, t \in {"fuel", "charging", NULL}, id \in OrderArgs \cup {NULL} :
          StripeWebhook(e, t, id) /\ UNCHANGED sideTables
    \/ NextDrivers /\ UNCHANGED sideTables

Spec == Init /\ [][Next]_vars

InitCharging == InitChargingOrder /\ InitRest

NextCharging ==
    \/ \E id \in ChargingOrderArgs, s \in ChargingOrderStatus, d \in DriverArgs \cup {NULL} :
          AdminUpdateChargingOrderStatus(id, s, d) /\ UNCHANGED sideTables
    \/ \E id \in ChargingOrderArgs, d \in DriverArgs : AdminAssignChargingOrderDriver(id, d)
          /\ UNCHANGED sideTables
    \/ \E c \in DriverIds, id \in ChargingOrderArgs, s \in ChargingOrderStatus :
          DriverUpdateChargingOrderStatus(c, id, s) /\ UNCHANGED sideTables
    \/ \E id \in ChargingOrderArgs, s \in ChargingOrderStatus, d \in DriverArgs \cup {NULL} :
          ChargingUpdateStatus(id, s, d) /\ UNCHANGED sideTables
    \/ \E u \in Users \cup {"admin"}, id \in ChargingOrderArgs, r \in Reasons :
          ChargingCancel(u, id, r) /\ UNCHANGED sideTables
    \/ NextDrivers /\ UNCHANGED sideTables

SpecCharging == InitCharging /\ [][NextCharging]_vars

InitDispatch == (InitFuelOrder \/ InitChargingOrder) /\ InitRest

NextDispatch ==
    \/ \E id \in OrderIds, s \in OrderStatus, d \in DriverArgs \cup {NULL} :
          AdminUpdateOrderStatus(id, s, d) /\ UNCHANGED sideTables
    \/ \E id \in OrderIds, d \in DriverArgs : AdminAssignDriver(id, d)
          /\ UNCHANGED sideTables
    \/ \E id \in ChargingOrderIds, s \in ChargingOrderStatus, d \in DriverArgs \cup {NULL} :
          AdminUpdateChargingOrderStatus(id, s, d) /\ UNCHANGED sideTables
    \/ \E id \in ChargingOrderIds, d \in DriverArgs : AdminAssignChargingOrderDriver(id, d)
          /\ UNCHANGED sideTables
    \/ NextDrivers /\ UNCHANGED sideTables

SpecDispatch == InitDispatch /\ [][NextDispatch]_vars

(* SpecCreate: the first creation request an empty store receives. *)
MaxItems == 2                  \* longest item list of a fuel order request

ItemArgs ==
    {[productId |-> "p1", quantity |-> 49], [productId |-> "p1", quantity |-> 50],
     [productId |-> "p2", quantity |-> 100], [productId |-> "p1", quantity |-> 5000],
     [productId |-> "p1", quantity |-> 5001], [productId |-> "p3", quantity |-> 50],
     [productId |-> "p0", quantity |-> 50]}
ItemLists == UNION {[1 .. n -> ItemArgs] : n \in 0 .. MaxItems}
AddressArgs == DOMAIN Addresses \cup {"a0"}    \* a0: an id with no addresses row
TipArgs == {0, 100500, 200400}                 \* $0, $1.005, $2.004
CarIdLists ==
    {[i \in 1 .. n |-> Car(i)] : n \in 0 .. MAX_CARS + 1}
    \cup {<<"k1", "k1">>, <<"k1", "x1">>, <<"k1", "k0">>}
ChargingDuration == DOMAIN CHARGING_PRICING

CreateOrderRequests ==
    [userId : Users, addressId : AddressArgs, paymentMethod : PaymentMethod,
     items : ItemLists, tip : TipArgs \cup {-100000}]

CreateChargingOrderRequests ==
    [userId : Users, addressId : AddressArgs, paymentMethod : PaymentMethod,
     chargingDuration : ChargingDuration, numberOfCars : 0 .. MAX_CARS + 1,
     carIds : CarIdLists, tip : TipArgs]

InitCreate ==
    /\ orders = EmptyTable
    /\ chargingOrders = EmptyTable
    /\ InitRest

NextCreate ==
    /\ last = NoResponse
    /\ UNCHANGED sideTables
    /\ \/ \E request \in CreateOrderRequests : CreateOrder(request)
       \/ \E request \in CreateChargingOrderRequests : CreateChargingOrder(request)

SpecCreate == InitCreate /\ [][NextCreate]_vars

(* SpecPayment: the processor's callbacks and the manual confirm, with an  *)
(* order of each kind on file.                                             *)
OrderTypeArgs == {"fuel", "charging", NULL}
AnyOrderArgs == OrderArgs \cup ChargingOrderArgs \cup {NULL}

InitPayment ==
    /\ \E m \in PaymentMethod : orders = [id \in OrderIds |-> NewOrder("u1", m, 5, 2)]
    /\ \E m \in PaymentMethod :
          chargingOrders = [id \in ChargingOrderIds |-> NewChargingOrder("u1", m, 3, 1)]
    /\ InitRest

NextPayment ==
    \/ \E e \in WebhookEvents, t \in OrderTypeArgs, id \in AnyOrderArgs :
          StripeWebhook(e, t, id) /\ UNCHANGED sideTables
    \/ \E s \in IntentStatuses, t \in OrderTypeArgs, id \in AnyOrderArgs :
          ConfirmPayment(s, t, id) /\ UNCHANGED sideTables

SpecPayment == InitPayment /\ [][NextPayment]_vars

(* SpecLedger: a driver finishing the assigned orders and asking for       *)
(* payouts, one command at a time.                                         *)

Amounts == 0 .. MaxAmount

(* What the payout rail answers: the account lookup, then the transfer,    *)
(* which is not attempted when the account is missing.                     *)
PayoutRail ==
    {<<"found", "succeeds">>, <<"found", "fails">>, <<"missing", "unused">>}

AssignedFuelOrder(driverId, paymentMethod, deliveryFee, tip) ==
    [NewOrder("u1", paymentMethod, deliveryFee, tip) EXCEPT
        !.driverId = driverId, !.status = "CONFIRMED"]

AssignedChargingOrder(driverId, paymentMethod, deliveryFee, tip) ==
    [NewChargingOrder("u1", paymentMethod, deliveryFee, tip) EXCEPT
        !.driverId = driverId, !.status = "ASSIGNED"]

InitLedger ==
    /\ InitSide
    /\ orders = [id \in OrderIds |-> AssignedFuelOrder("d1", "CASH_ON_DELIVERY", 5, 2)]
    /\ chargingOrders =
          [id \in ChargingOrderIds |-> AssignedChargingOrder("d1", "CARD_ON_DELIVERY", 3, 1)]
    /\ drivers = [d \in DriverIds |-> NewDriver(NULL)]
    /\ payouts = <<>>
    /\ transfers = <<>>
    /\ reqs = [p \in Procs |-> Idle]
    /\ last = NoResponse

NextLedger ==
    \/ \E id \in OrderIds, s \in {"IN_TRANSIT", "DELIVERED"} :
          DriverUpdateFuelOrderStatus("d1", id, s) /\ UNCHANGED sideTables
    \/ \E id \in ChargingOrderIds, s \in {"IN_PROGRESS", "COMPLETED"} :
          DriverUpdateChargingOrderStatus("d1", id, s) /\ UNCHANGED sideTables
    \/ \E d \in DriverIds, created \in BOOLEAN : DriverConnectOnboarding(d, created)
          /\ UNCHANGED sideTables
    \/ \E d \in DriverIds, a \in Amounts, rail \in PayoutRail :
          RequestPayout(d, a, rail[1], rail[2]) /\ UNCHANGED sideTables

SpecLedger == InitLedger /\ [][NextLedger]_vars

----------------------------------------------------------------------------
(* Handlers split at their awaits.  A request p advances one await at a    *)
(* time; between two of its steps any other request may run.               *)

Finish(p, result) ==
    /\ reqs' = [reqs EXCEPT ![p].pc = "done", ![p].result = result]
    /\ last' = Response(reqs[p].op, result)

Goto(p, pc) ==
    /\ reqs' = [reqs EXCEPT ![p].pc = pc]
    /\ UNCHANGED last

(* adminController.assignDriver / assignChargingOrderDriver *)

AssignBegin(p, op, id, driverId) ==
    /\ reqs[p].pc = "idle"
    /\ reqs' = [reqs EXCEPT ![p] = Frame("findOrder", op, id, driverId, 0)]
    /\ UNCHANGED <<orders, chargingOrders, drivers, payouts, transfers, last>>

AssignTable(op) == IF op = "admin.assignDriver" THEN orders ELSE chargingOrders

AssignFindOrder(p) ==
    /\ reqs[p].pc = "findOrder"
    /\ IF reqs[p].orderId \notin DOMAIN AssignTable(reqs[p].op)
       THEN Finish(p, "order_not_found")
       ELSE /\ reqs' = [reqs EXCEPT ![p].pc = "findDriver",
                                    ![p].read = AssignTable(reqs[p].op)[reqs[p].orderId]]
            /\ UNCHANGED last
    /\ UNCHANGED <<orders, chargingOrders, drivers, payouts, transfers>>

AssignFindDriver(p) ==
    /\ reqs[p].pc = "findDriver"
    /\ IF DriverCheck(drivers, reqs[p].driverId) # "ok"
       THEN Finish(p, DriverCheck(drivers, reqs[p].driverId))
       ELSE Goto(p, "update")
    /\ UNCHANGED <<orders, chargingOrders, drivers, payouts, transfers>>

AssignUpdate(p) ==
    /\ reqs[p].pc = "update"
    /\ IF reqs[p].op = "admin.assignDriver"
       THEN /\ orders' = [orders EXCEPT ![reqs[p].orderId] =
                             AssignDriverWrite(@, reqs[p].read, reqs[p].driverId)]
            /\ UNCHANGED chargingOrders
       ELSE /\ chargingOrders' = [chargingOrders EXCEPT ![reqs[p].orderId] =
                             AssignChargingOrderDriverWrite(@, reqs[p].read, reqs[p].driverId)]
            /\ UNCHANGED orders
    /\ Finish(p, "ok")
    /\ UNCHANGED <<drivers, payouts, transfers>>

InitAssignRace == InitDispatch

NextAssignRace ==
    \/ \E p \in Procs, id \in OrderIds, d \in DriverIds :
          AssignBegin(p, "admin.assignDriver", id, d) /\ UNCHANGED sideTables
    \/ \E p \in Procs, id \in ChargingOrderIds, d \in DriverIds :
          AssignBegin(p, "admin.assignChargingOrderDriver", id, d) /\ UNCHANGED sideTables
    \/ \E p \in Procs : AssignFindOrder(p) /\ UNCHANGED sideTables
    \/ \E p \in Procs : AssignFindDriver(p) /\ UNCHANGED sideTables
    \/ \E p \in Procs : AssignUpdate(p) /\ UNCHANGED sideTables
    \/ NextDrivers /\ UNCHANGED sideTables

SpecAssignRace == InitAssignRace /\ [][NextAssignRace]_vars

(* driverController.requestPayout *)

PayoutBegin(p, driverId, amount) ==
    /\ reqs[p].pc = "idle"
    /\ IF PayoutAmountCheck(amount) # "ok"
       THEN /\ reqs' = [reqs EXCEPT ![p] =
                          [Frame("done", "driver.requestPayout", NULL, driverId, amount)
                              EXCEPT !.result = PayoutAmountCheck(amount)]]
            /\ last' = Response("driver.requestPayout", PayoutAmountCheck(amount))
       ELSE /\ reqs' = [reqs EXCEPT ![p] =
                          Frame("findDriver", "driver.requestPayout", NULL, driverId, amount)]
            /\ UNCHANGED last
    /\ UNCHANGED <<orders, chargingOrders, drivers, payouts, transfers>>

PayoutFindDriver(p) ==
    /\ reqs[p].pc = "findDriver"
    /\ IF PayoutDriverCheck(drivers, reqs[p].driverId) # "ok"
       THEN Finish(p, PayoutDriverCheck(drivers, reqs[p].driverId))
       ELSE Goto(p, "earningsFuel")
    /\ UNCHANGED <<orders, chargingOrders, drivers, payouts, transfers>>

PayoutEarningsFuel(p) ==
    /\ reqs[p].pc = "earningsFuel"
    /\ reqs' = [reqs EXCEPT ![p].pc = "earningsCharging",
                            ![p].read = [totalEarned |-> EarnedFuel(orders, reqs[p].driverId)]]
    /\ UNCHANGED <<orders, chargingOrders, drivers, payouts, transfers, last>>

PayoutEarningsCharging(p) ==
    /\ reqs[p].pc = "earningsCharging"
    /\ reqs' = [reqs EXCEPT ![p].pc = "earningsPayouts",
                            ![p].read = [totalEarned |-> reqs[p].read.totalEarned
                                            + EarnedCharging(chargingOrders, reqs[p].driverId)]]
    /\ UNCHANGED <<orders, chargingOrders, drivers, payouts, transfers, last>>

PayoutEarningsPayouts(p) ==
    LET earnings == EarningsResult(reqs[p].read.totalEarned,
                                   PaidOut(payouts, reqs[p].driverId)) IN
    /\ reqs[p].pc = "earningsPayouts"
    /\ IF PayoutBalanceCheck(reqs[p].amount, earnings) # "ok"
       THEN /\ reqs' = [reqs EXCEPT ![p].pc = "done", ![p].read = earnings,
                           ![p].result = PayoutBalanceCheck(reqs[p].amount, earnings)]
            /\ last' = Response(reqs[p].op, PayoutBalanceCheck(reqs[p].amount, earnings))
       ELSE /\ reqs' = [reqs EXCEPT ![p].pc = "getConnectAccount", ![p].read = earnings]
            /\ UNCHANGED last
    /\ UNCHANGED <<orders, chargingOrders, drivers, payouts, transfers>>

PayoutGetConnectAccount(p, account) ==
    /\ reqs[p].pc = "getConnectAccount"
    /\ IF account = "missing" THEN Finish(p, "account_not_found") ELSE Goto(p, "createTransfer")
    /\ UNCHANGED <<orders, chargingOrders, drivers, payouts, transfers>>

PayoutCreateTransfer(p, transfer) ==
    /\ reqs[p].pc = "createTransfer"
    /\ IF transfer = "fails"
       THEN /\ Goto(p, "createFailedRow")
            /\ UNCHANGED transfers
       ELSE /\ reqs' = [reqs EXCEPT ![p].pc = "createRow",
                           ![p].stripeTransferId = TransferId(Len(transfers) + 1)]
            /\ transfers' = Append(transfers, Transfer(reqs[p].driverId, reqs[p].amount))
            /\ UNCHANGED last
    /\ UNCHANGED <<orders, chargingOrders, drivers, payouts>>

PayoutCreateRow(p) ==
    /\ reqs[p].pc = "createRow"
    /\ payouts' = Append(payouts, PayoutRow(reqs[p].driverId, reqs[p].amount, "SUCCEEDED",
                                            reqs[p].stripeTransferId, NULL))
    /\ Finish(p, "ok")
    /\ UNCHANGED <<orders, chargingOrders, drivers, transfers>>

PayoutCreateFailedRow(p) ==
    /\ reqs[p].pc = "createFailedRow"
    /\ payouts' = Append(payouts, PayoutRow(reqs[p].driverId, reqs[p].amount, "FAILED",
                                            NULL, "Transfer failed"))
    /\ Finish(p, "transfer_failed")
    /\ UNCHANGED <<orders, chargingOrders, drivers, transfers>>

(* SpecPayoutRace: driver d1 has delivered and completed the two orders,   *)
(* both paid on delivery; payout requests run concurrently.                *)

InitPayoutRace ==
    /\ InitSide
    /\ orders = [id \in OrderIds |->
                    UpdateFuelOrderStatusWrite(
                       AssignedFuelOrder("d1", "CASH_ON_DELIVERY", 5, 2),
                       AssignedFuelOrder("d1", "CASH_ON_DELIVERY", 5, 2), "DELIVERED")]
    /\ chargingOrders = [id \in ChargingOrderIds |->
                    DriverUpdateChargingOrderStatusWrite(
                       AssignedChargingOrder("d1", "CARD_ON_DELIVERY", 3, 1),
                       AssignedChargingOrder("d1", "CARD_ON_DELIVERY", 3, 1), "COMPLETED")]
    /\ drivers = [d \in DriverIds |-> NewDriver("acct_" \o d)]
    /\ payouts = <<>>
    /\ transfers = <<>>
    /\ reqs = [p \in Procs |-> Idle]
    /\ last = NoResponse

NextPayoutRace ==
    \/ \E p \in Procs, d \in DriverIds, a \in Amounts : PayoutBegin(p, d, a)
          /\ UNCHANGED sideTables
    \/ \E p \in Procs : PayoutFindDriver(p) /\ UNCHANGED sideTables
    \/ \E p \in Procs : PayoutEarningsFuel(p) /\ UNCHANGED sideTables
    \/ \E p \in Procs : PayoutEarningsCharging(p) /\ UNCHANGED sideTables
    \/ \E p \in Procs : PayoutEarningsPayouts(p) /\ UNCHANGED sideTables
    \/ \E p \in Procs, acc \in {"found", "missing"} : PayoutGetConnectAccount(p, acc)
          /\ UNCHANGED sideTables
    \/ \E p \in Procs, tr \in {"succeeds", "fails"} : PayoutCreateTransfer(p, tr)
          /\ UNCHANGED sideTables
    \/ \E p \in Procs : PayoutCreateRow(p) /\ UNCHANGED sideTables
    \/ \E p \in Procs : PayoutCreateFailedRow(p) /\ UNCHANGED sideTables

SpecPayoutRace == InitPayoutRace /\ [][NextPayoutRace]_vars

----------------------------------------------------------------------------
(* Refunds.  Amounts are whole dollars.  SpecRefund: both orders were paid *)
(* online, and refunds are asked of their payment intents.                 *)

(* What the processor captured for an intent: createPaymentIntent is given *)
(* the order's totalAmount; pi_x was captured elsewhere.                   *)
Captured(intent) ==
    IF Intents[intent].orderId \in DOMAIN orders THEN orders[Intents[intent].orderId].totalAmount
    ELSE IF Intents[intent].orderId \in DOMAIN chargingOrders
    THEN chargingOrders[Intents[intent].orderId].totalAmount
    ELSE 10

(* What stripe.refunds.create may answer. *)
RefundOutcomes == {"succeeded", "pending", "throws"}

(* if (amount): an absent amount and the amount 0 both ask for everything  *)
(* that is left.  An amount is <<n>>, an absent one <<>>.                  *)
RefundRequested(intent, amount) ==
    IF JsFalsy(amount) THEN Captured(intent) - refunded[intent] ELSE amount[1]

(* The processor refuses a refund of nothing and one above what is left. *)
CreateRefundResult(intent, amount, outcome) ==
    IF outcome = "throws" THEN "error"
    ELSE IF RefundRequested(intent, amount) <= 0 THEN "error"
    ELSE IF RefundRequested(intent, amount) > Captured(intent) - refunded[intent] THEN "error"
    ELSE outcome

IsFullRefund(intent, amount, totalAmount) ==
    JsFalsy(amount) \/ amount[1] >= totalAmount

CreateRefundWrite(row, intent, amount) ==
    [row EXCEPT !.paymentStatus = IF IsFullRefund(intent, amount, row.totalAmount)
                                  THEN "REFUNDED" ELSE "PAID"]

(* stripeService.createRefund(paymentIntentId, amount) *)
CreateRefund(intent, amount, outcome) ==
    LET result == CreateRefundResult(intent, amount, outcome)
        orderId == Intents[intent].orderId
        orderType == NormalizeOrderType(Intents[intent].orderType)
        written == result = "succeeded" /\ orderId # NULL
    IN
    /\ refunded' = IF result = "succeeded"
                   THEN [refunded EXCEPT ![intent] = @ + RefundRequested(intent, amount)]
                   ELSE refunded
    /\ orders' = IF written /\ orderType = "fuel" /\ orderId \in DOMAIN orders
                 THEN [orders EXCEPT ![orderId] = CreateRefundWrite(@, intent, amount)]
                 ELSE orders
    /\ chargingOrders' =
          IF written /\ orderType = "charging" /\ orderId \in DOMAIN chargingOrders
          THEN [chargingOrders EXCEPT ![orderId] = CreateRefundWrite(@, intent, amount)]
          ELSE chargingOrders
    /\ last' = [op |-> "payment.createRefund", result |-> result,
                request |-> [paymentIntentId |-> intent, amount |-> amount]]
    /\ UNCHANGED <<drivers, payouts, transfers, reqs, locations, notifications, tasks>>

(* <<>>: no amount given *)
RefundAmounts == {<<>>, <<0>>, <<4>>, <<6>>, <<10>>, <<12>>}

PaidOnline(row, totalAmount) ==
    [row EXCEPT !.paymentStatus = "PAID"] @@ [totalAmount |-> totalAmount]

InitRefund ==
    /\ orders = [id \in OrderIds |-> PaidOnline(NewOrder("u1", "ONLINE", 5, 2), 10)]
    /\ chargingOrders =
          [id \in ChargingOrderIds |->
              PaidOnline(NewChargingOrder("u1", "ONLINE", 3, 1), 6)]
    /\ InitRest

NextRefund ==
    \E intent \in DOMAIN Intents, amount \in RefundAmounts, outcome \in RefundOutcomes :
       CreateRefund(intent, amount, outcome)

SpecRefund == InitRefund /\ [][NextRefund]_vars

----------------------------------------------------------------------------
(* SpecEarnings: driver d1 holds a fuel order paid on delivery and a       *)
(* charging order paid on delivery; a second fuel order, to be paid        *)
(* online, is held by d1 or by d2.  The drivers finish the orders, the     *)
(* processor reports on the online payment, and d1 asks for payouts and    *)
(* for the earnings summary.                                               *)

(* GET /driver/earnings *)
DriverGetEarnings(caller) ==
    /\ last' = [op |-> "driver.getEarnings", result |-> "ok", driverId |-> caller,
                earnings |-> GetDriverEarnings(orders, chargingOrders, payouts, caller)]
    /\ UNCHANGED <<orders, chargingOrders, drivers, payouts, transfers, reqs>>

EarningsOrderIds == {"o1", "o2"}
EarningsAmounts == {5, 10}

InitEarnings ==
    /\ \E d \in DriverIds, tip \in {0, 2} :
          orders = [id \in EarningsOrderIds |->
                       IF id = "o1" THEN AssignedFuelOrder("d1", "CASH_ON_DELIVERY", 5, 2)
                       ELSE [AssignedFuelOrder(d, "ONLINE", 5, tip) EXCEPT !.userId = "u2"]]
    /\ chargingOrders =
          [id \in ChargingOrderIds |-> AssignedChargingOrder("d1", "CARD_ON_DELIVERY", 3, 1)]
    /\ InitRest

NextEarnings ==
    \/ \E c \in DriverIds, id \in EarningsOrderIds : DriverUpdateFuelOrderStatus(c, id, "DELIVERED")
          /\ UNCHANGED sideTables
    \/ \E id \in ChargingOrderIds : DriverUpdateChargingOrderStatus("d1", id, "COMPLETED")
          /\ UNCHANGED sideTables
    \/ \E e \in {"payment_intent.succeeded", "payment_intent.payment_failed"} :
          StripeWebhook(e, "fuel", "o2") /\ UNCHANGED sideTables
    \/ \E a \in EarningsAmounts, rail \in {<<"found", "succeeds">>, <<"found", "fails">>} :
          RequestPayout("d1", a, rail[1], rail[2]) /\ UNCHANGED sideTables
    \/ \E d \in DriverIds : DriverGetEarnings(d) /\ UNCHANGED sideTables

SpecEarnings == InitEarnings /\ [][NextEarnings]_vars

----------------------------------------------------------------------------
(* Deleting a driver.  The foreign keys on drivers(id) set driverId to     *)
(* NULL in orders and charging_orders and delete the driver's rows of      *)
(* driver_payouts, driver_locations and driver_notifications.              *)

ActiveOrderStatus == {"PENDING", "CONFIRMED", "DISPATCHED", "IN_TRANSIT"}

AdminDeleteDriverResult(id) ==
    IF id \notin DOMAIN drivers THEN "driver_not_found"
    ELSE IF \E o \in DOMAIN orders :
               orders[o].driverId = id /\ orders[o].status \in ActiveOrderStatus
    THEN "active_orders"
    ELSE "ok"

SetNullDriver(table, id) ==
    [o \in DOMAIN table |->
        IF table[o].driverId = id THEN [table[o] EXCEPT !.driverId = NULL] ELSE table[o]]

RECURSIVE CascadeDelete(_, _)
CascadeDelete(rows, id) ==
    IF rows = <<>> THEN <<>>
    ELSE IF Head(rows).driverId = id THEN CascadeDelete(Tail(rows), id)
    ELSE <<Head(rows)>> \o CascadeDelete(Tail(rows), id)

(* DELETE /admin/drivers/:id *)
AdminDeleteDriver(id) ==
    LET result == AdminDeleteDriverResult(id) IN
    /\ IF result = "ok"
       THEN /\ drivers' = [d \in DOMAIN drivers \ {id} |-> drivers[d]]
            /\ orders' = SetNullDriver(orders, id)
            /\ chargingOrders' = SetNullDriver(chargingOrders, id)
            /\ payouts' = CascadeDelete(payouts, id)
            /\ locations' = [d \in DOMAIN locations \ {id} |-> locations[d]]
            /\ notifications' = CascadeDelete(notifications, id)
       ELSE UNCHANGED <<drivers, orders, chargingOrders, payouts, locations, notifications>>
    /\ last' = Response("admin.deleteDriver", result)
    /\ UNCHANGED <<transfers, reqs, refunded, tasks>>

(* SpecLedgerAdmin: driver d1 finishes the assigned orders and asks for    *)
(* payouts while the admin deletes drivers.                                *)
LedgerAdminAmounts == {5, 7}

InitLedgerAdmin ==
    /\ orders = [id \in OrderIds |-> AssignedFuelOrder("d1", "CASH_ON_DELIVERY", 5, 2)]
    /\ chargingOrders =
          [id \in ChargingOrderIds |-> AssignedChargingOrder("d1", "CARD_ON_DELIVERY", 3, 1)]
    /\ InitRest

NextLedgerAdmin ==
    \/ \E id \in OrderIds :
          DriverUpdateFuelOrderStatus("d1", id, "DELIVERED") /\ UNCHANGED sideTables
    \/ \E id \in ChargingOrderIds :
          DriverUpdateChargingOrderStatus("d1", id, "COMPLETED") /\ UNCHANGED sideTables
    \/ \E d \in DriverIds, a \in LedgerAdminAmounts, rail \in PayoutRail :
          RequestPayout(d, a, rail[1], rail[2]) /\ UNCHANGED sideTables
    \/ \E id \in DriverArgs : AdminDeleteDriver(id)

SpecLedgerAdmin == InitLedgerAdmin /\ [][NextLedgerAdmin]_vars

----------------------------------------------------------------------------
(* Notifications.  A handler starts notifyUser / notifyDriver after its    *)
(* awaited update and does not await them; each call is a promise that    *)
(* runs on its own and whose rejection `.catch(() => {})` swallows.       *)
(* tasks holds every promise the handlers started, with where it stands:  *)
(* "started", "created" (notifyDriver wrote its history row), "fulfilled" *)
(* or "rejected".                                                          *)

MaxTasks == 2                  \* a handler runs while fewer promises were started

NotifyTask(to, id, data) == [to |-> to, id |-> id, data |-> data, pc |-> "started"]

(* Statuses with an entry in statusMessages. *)
StatusMessages == {"CONFIRMED", "DISPATCHED", "IN_TRANSIT", "DELIVERED", "CANCELLED"}

(* Mutant: the notifications are started before the checks and the write. *)
DispatchBeforeWrite(result, started) == tasks \o started

(* The calls stand after the awaited update, inside the try block: they   *)
(* are reached only when no check returned early and the update resolved. *)
Dispatch(result, started) == IF result = "ok" THEN tasks \o started ELSE tasks

AdminUpdateOrderStatusNotified(id, status, driverId) ==
    /\ AdminUpdateOrderStatus(id, status, driverId)
    /\ tasks' = Dispatch(AdminUpdateOrderStatusResult(id, driverId),
                         IF status \in StatusMessages
                         THEN <<NotifyTask("user", orders[id].userId,
                                    [type |-> "order_status", orderId |-> id, status |-> status])>>
                         ELSE <<>>)
    /\ UNCHANGED <<refunded, locations, notifications>>

AdminAssignDriverNotified(id, driverId) ==
    /\ AdminAssignDriver(id, driverId)
    /\ tasks' = Dispatch(AdminAssignDriverResult(id, driverId),
                         <<NotifyTask("user", orders[id].userId,
                               [type |-> "order_assigned", orderId |-> id, status |-> NULL]),
                           NotifyTask("driver", driverId,
                               [type |-> "order_assigned", orderId |-> id, status |-> NULL])>>)
    /\ UNCHANGED <<refunded, locations, notifications>>

(* notifyUser: read the push tokens, send.  A failed token query rejects  *)
(* the promise; a failed send is caught and logged inside                 *)
(* sendExpoPushNotifications, so the promise fulfils.                     *)
NotifyUserOutcomes == {"sent", "no_tokens", "send_fails", "query_fails"}

NotifyUser(i, outcome) ==
    /\ tasks[i].to = "user" /\ tasks[i].pc = "started"
    /\ tasks' = [tasks EXCEPT ![i].pc = IF outcome = "query_fails" THEN "rejected"
                                        ELSE "fulfilled"]
    /\ UNCHANGED <<orders, chargingOrders, drivers, payouts, transfers, reqs, last,
                   refunded, locations, notifications>>

(* notifyDriver, first await: the driver_notifications row.  The insert   *)
(* fails when the database does or when the driver has no row.            *)
NotifyDriverCreate(i, fails) ==
    /\ tasks[i].to = "driver" /\ tasks[i].pc = "started"
    /\ LET rejected == fails \/ tasks[i].id \notin DOMAIN drivers IN
       /\ tasks' = [tasks EXCEPT ![i].pc = IF rejected THEN "rejected" ELSE "created"]
       /\ notifications' = IF rejected THEN notifications
                           ELSE Append(notifications,
                                       [driverId |-> tasks[i].id, type |-> tasks[i].data.type,
                                        orderId |-> tasks[i].data.orderId])
    /\ UNCHANGED <<orders, chargingOrders, drivers, payouts, transfers, reqs, last,
                   refunded, locations>>

(* notifyDriver, after the row: the push, as in notifyUser. *)
NotifyDriverPush(i, outcome) ==
    /\ tasks[i].to = "driver" /\ tasks[i].pc = "created"
    /\ tasks' = [tasks EXCEPT ![i].pc = IF outcome = "query_fails" THEN "rejected"
                                        ELSE "fulfilled"]
    /\ UNCHANGED <<orders, chargingOrders, drivers, payouts, transfers, reqs, last,
                   refunded, locations, notifications>>

NotifyStep ==
    \E i \in 1 .. Len(tasks) :
        \/ \E o \in NotifyUserOutcomes : NotifyUser(i, o)
        \/ \E f \in BOOLEAN : NotifyDriverCreate(i, f)
        \/ \E o \in NotifyUserOutcomes : NotifyDriverPush(i, o)

(* SpecNotify: the admin's commands on a fuel order, and the notification *)
(* promises they started running in between.                              *)
InitNotify == InitFuelOrder /\ InitRest

NextNotify ==
    \/ /\ Len(tasks) < MaxTasks
       /\ \E id \in OrderIds, s \in OrderStatus, d \in DriverArgs \cup {NULL} :
             AdminUpdateOrderStatusNotified(id, s, d)
    \/ /\ Len(tasks) < MaxTasks
       /\ \E id \in OrderIds, d \in DriverArgs : AdminAssignDriverNotified(id, d)
    \/ \E i \in 1 .. Len(tasks), o \in NotifyUserOutcomes : NotifyUser(i, o)
    \/ \E i \in 1 .. Len(tasks), f \in BOOLEAN : NotifyDriverCreate(i, f)
    \/ \E i \in 1 .. Len(tasks), o \in NotifyUserOutcomes : NotifyDriverPush(i, o)

SpecNotify == InitNotify /\ [][NextNotify]_vars

----------------------------------------------------------------------------
(* Live location.  A coordinate of the request body is a JSON value:      *)
(*   "number"   a number, n                                               *)
(*   "numeric"  a string that spells the number n, as "45"                *)
(*   "text"     a string that spells no number, as "abc"                  *)
(*   "empty"    the string ""                                              *)
(*   "null"     null                                                       *)
(*   "absent"   no such key (undefined)                                    *)

Json(t, n) == [t |-> t, n |-> n]

(* Number(value): <<n>> for a finite number, <<>> for NaN. *)
ToNumber(value) ==
    CASE value.t \in {"number", "numeric"} -> <<value.n>>
      [] value.t \in {"empty", "null"} -> <<0>>
      [] OTHER -> <<>>

UpdateLocationResult(caller, latitude, longitude) ==
    LET lat == ToNumber(latitude)
        lon == ToNumber(longitude)
    IN  IF lat = <<>> \/ lon = <<>> THEN "required"
        ELSE IF lat[1] < -90 \/ lat[1] > 90 \/ lon[1] < -180 \/ lon[1] > 180 THEN "invalid"
        ELSE IF caller \notin DOMAIN drivers THEN "error"    \* foreign key on driverId
        ELSE "ok"

(* prisma.driverLocation.upsert({ where: { driverId } }) on the unique    *)
(* driverId: the row of the driver is created or overwritten.             *)
Upsert(table, driverId, row) ==
    [d \in DOMAIN table \cup {driverId} |-> IF d = driverId THEN row ELSE table[d]]

(* POST /driver/location *)
UpdateLocation(caller, latitude, longitude) ==
    LET result == UpdateLocationResult(caller, latitude, longitude) IN
    /\ locations' = IF result = "ok"
                    THEN Upsert(locations, caller,
                                [latitude |-> ToNumber(latitude)[1],
                                 longitude |-> ToNumber(longitude)[1]])
                    ELSE locations
    /\ last' = [op |-> "driver.updateLocation", result |-> result, driverId |-> caller,
                request |-> [latitude |-> latitude, longitude |-> longitude]]
    /\ UNCHANGED <<orders, chargingOrders, drivers, payouts, transfers, reqs,
                   refunded, notifications, tasks>>

Latitudes ==
    {Json("number", -91), Json("number", -90), Json("number", 90), Json("number", 91),
     Json("numeric", 45), Json("text", 0), Json("null", 0), Json("absent", 0)}
Longitudes ==
    {Json("number", -181), Json("number", -180), Json("number", 180), Json("number", 181),
     Json("empty", 0), Json("text", 0)}

(* SpecLocation: the pings of the drivers, one after the other; a ping    *)
(* touches the store in its one upsert statement.                         *)
InitLocation == orders = EmptyTable /\ chargingOrders = EmptyTable /\ InitRest

NextLocation ==
    \E c \in DriverArgs, lat \in Latitudes, lon \in Longitudes : UpdateLocation(c, lat, lon)

SpecLocation == InitLocation /\ [][NextLocation]_vars

----------------------------------------------------------------------------
(* Order numbers.  A creation draws its orderNumber from the clock and    *)
(* the random generator; numbers lists what the generator would give on   *)
(* its successive calls.  The handlers call it once.  orderNumber is      *)
(* UNIQUE in each of the two tables: an insert with a number already      *)
(* there fails and the handler answers with the error.                    *)

NumberTaken(table, orderNumber) == \E id \in DOMAIN table : table[id].orderNumber = orderNumber

Insert(table, ids, row) ==
    LET id == CHOOSE x \in ids : x \notin DOMAIN table IN (id :> row) @@ table

CreateOrderNumbered(request, numbers) ==
    LET check == CreateOrderCheck(request)
        orderNumber == numbers[1]
        result == IF check # "ok" THEN check
                  ELSE IF NumberTaken(orders, orderNumber) THEN "error"
                  ELSE "ok"
    IN  /\ orders' = IF result = "ok"
                     THEN Insert(orders, {"o1", "o2"},
                                 CreateOrderRow(request) @@ [orderNumber |-> orderNumber])
                     ELSE orders
        /\ last' = [op |-> "order.create", result |-> result, request |-> request,
                    numbers |-> numbers]
        /\ UNCHANGED <<chargingOrders, drivers, payouts, transfers, reqs>>

CreateChargingOrderNumbered(request, numbers) ==
    LET check == CreateChargingOrderCheck(request)
        orderNumber == numbers[1]
        result == IF check # "ok" THEN check
                  ELSE IF NumberTaken(chargingOrders, orderNumber) THEN "error"
                  ELSE "ok"
    IN  /\ chargingOrders' =
              IF result = "ok"
              THEN Insert(chargingOrders, {"c1", "c2"},
                          CreateChargingOrderRow(request) @@ [orderNumber |-> orderNumber])
              ELSE chargingOrders
        /\ last' = [op |-> "charging.create", result |-> result, request |-> request,
                    numbers |-> numbers]
        /\ UNCHANGED <<orders, drivers, payouts, transfers, reqs>>

NumberedOrderRequests ==
    {r \in CreateOrderRequests :
        /\ r.userId = "u1" /\ r.addressId = "a1" /\ r.tip = 0
        /\ r.paymentMethod = "ONLINE"
        /\ r.items \in {<<>>, <<[productId |-> "p1", quantity |-> 50]>>}}
NumberedChargingOrderRequests ==
    {r \in CreateChargingOrderRequests :
        /\ r.userId = "u1" /\ r.addressId = "a1" /\ r.tip = 0
        /\ r.paymentMethod = "ONLINE" /\ r.chargingDuration = "ONE_HOUR"
        /\ r.numberOfCars \in {0, 1} /\ r.carIds = <<Car(1)>>}
FuelNumbers == {"PT-1", "PT-2"}
ChargingNumbers == {"CHG-1", "CHG-2"}

(* SpecNumber: creations one after the other, while a table has room. *)
NextNumber ==
    \/ /\ Cardinality(DOMAIN orders) < 2
       /\ \E request \in NumberedOrderRequests, numbers \in FuelNumbers \X FuelNumbers :
             CreateOrderNumbered(request, numbers)
       /\ UNCHANGED sideTables
    \/ /\ Cardinality(DOMAIN chargingOrders) < 2
       /\ \E request \in NumberedChargingOrderRequests,
             numbers \in ChargingNumbers \X ChargingNumbers :
             CreateChargingOrderNumbered(request, numbers)
       /\ UNCHANGED sideTables

SpecNumber == InitCreate /\ [][NextNumber]_vars

----------------------------------------------------------------------------
(* The customer's cancel and the driver's status update, split at their   *)
(* awaits like the assignment above: each reads the order, decides on the *)
(* row it read, and writes in a later statement.                          *)

(* orderService.cancelOrder *)
CancelBegin(p, caller, id, reason) ==
    /\ reqs[p].pc = "idle"
    /\ reqs' = [reqs EXCEPT ![p] = [userId |-> caller, reason |-> reason]
                                       @@ Frame("cancelFind", "order.cancel", id, NULL, 0)]
    /\ UNCHANGED <<orders, chargingOrders, drivers, payouts, transfers, last>>

CancelFind(p) ==
    /\ reqs[p].pc = "cancelFind"
    /\ LET result == CancelOrderCheck(orders, reqs[p].orderId, reqs[p].userId) IN
       IF result # "ok" THEN Finish(p, result) ELSE Goto(p, "cancelUpdate")
    /\ UNCHANGED <<orders, chargingOrders, drivers, payouts, transfers>>

CancelUpdate(p) ==
    /\ reqs[p].pc = "cancelUpdate"
    /\ orders' = [orders EXCEPT ![reqs[p].orderId] = CancelOrderWrite(@, reqs[p].reason)]
    /\ Finish(p, "ok")
    /\ UNCHANGED <<chargingOrders, drivers, payouts, transfers>>

(* driverController.updateFuelOrderStatus *)
StatusBegin(p, caller, id, status) ==
    /\ reqs[p].pc = "idle"
    /\ reqs' = [reqs EXCEPT ![p] = [status |-> status]
                                       @@ Frame("statusFind", "driver.updateFuelOrderStatus",
                                                id, caller, 0)]
    /\ UNCHANGED <<orders, chargingOrders, drivers, payouts, transfers, last>>

StatusFind(p) ==
    /\ reqs[p].pc = "statusFind"
    /\ LET result == DriverUpdateFuelOrderStatusResult(reqs[p].driverId, reqs[p].orderId) IN
       IF result # "ok" THEN Finish(p, result)
       ELSE /\ reqs' = [reqs EXCEPT ![p].pc = "statusUpdate",
                                    ![p].read = orders[reqs[p].orderId]]
            /\ UNCHANGED last
    /\ UNCHANGED <<orders, chargingOrders, drivers, payouts, transfers>>

StatusUpdate(p) ==
    /\ reqs[p].pc = "statusUpdate"
    /\ orders' = [orders EXCEPT ![reqs[p].orderId] =
                     UpdateFuelOrderStatusWrite(@, reqs[p].read, reqs[p].status)]
    /\ Finish(p, "ok")
    /\ UNCHANGED <<chargingOrders, drivers, payouts, transfers>>

(* SpecCancelRace: two requests on one fuel order, which is new or was    *)
(* assigned to d1.                                                         *)
InitCancelRace ==
    /\ \E row \in {NewOrder("u1", "CASH_ON_DELIVERY", 5, 2),
                   AssignedFuelOrder("d1", "CASH_ON_DELIVERY", 5, 2)} :
          orders = [id \in OrderIds |-> row]
    /\ chargingOrders = EmptyTable
    /\ InitRest

NextCancelRace ==
    \/ \E p \in Procs, u \in Users, id \in OrderIds, r \in Reasons : CancelBegin(p, u, id, r)
          /\ UNCHANGED sideTables
    \/ \E p \in Procs : CancelFind(p) /\ UNCHANGED sideTables
    \/ \E p \in Procs : CancelUpdate(p) /\ UNCHANGED sideTables
    \/ \E p \in Procs, id \in OrderIds, d \in DriverIds :
          AssignBegin(p, "admin.assignDriver", id, d) /\ UNCHANGED sideTables
    \/ \E p \in Procs : AssignFindOrder(p) /\ UNCHANGED sideTables
    \/ \E p \in Procs : AssignFindDriver(p) /\ UNCHANGED sideTables
    \/ \E p \in Procs : AssignUpdate(p) /\ UNCHANGED sideTables
    \/ \E p \in Procs, c \in DriverIds, id \in OrderIds, s \in OrderStatus :
          StatusBegin(p, c, id, s) /\ UNCHANGED sideTables
    \/ \E p \in Procs : StatusFind(p) /\ UNCHANGED sideTables
    \/ \E p \in Procs : StatusUpdate(p) /\ UNCHANGED sideTables

SpecCancelRace == InitCancelRace /\ [][NextCancelRace]_vars

----------------------------------------------------------------------------
(* requestPayout when the insert into driver_payouts throws: the error    *)
(* reaches the outer catch and the handler answers 500.  The transfer,    *)
(* made before the insert, stays made.                                     *)
RequestPayoutWriteFails(driverId, amount, account, transfer) ==
    LET result == RequestPayoutResult(driverId, amount, account, transfer) IN
    /\ Len(transfers) < MaxPayoutRows
    /\ transfers' = IF result = "ok"
                    THEN Append(transfers, Transfer(driverId, amount))
                    ELSE transfers
    /\ last' = Response("driver.requestPayout",
                        IF result \in {"ok", "transfer_failed"} THEN "error" ELSE result)
    /\ UNCHANGED <<orders, chargingOrders, drivers, payouts, reqs>>

(* SpecLedgerWrite: d1 has delivered and completed the two orders and     *)
(* asks for payouts; the ledger insert may fail.                          *)
NextLedgerWrite ==
    \/ \E d \in DriverIds, a \in Amounts, rail \in PayoutRail :
          RequestPayout(d, a, rail[1], rail[2]) /\ UNCHANGED sideTables
    \/ \E d \in DriverIds, a \in Amounts, rail \in PayoutRail :
          RequestPayoutWriteFails(d, a, rail[1], rail[2]) /\ UNCHANGED sideTables

SpecLedgerWrite == InitPayoutRace /\ [][NextLedgerWrite]_vars

----------------------------------------------------------------------------
(* The routes a DRIVER token reaches.  chargingController.updateStatus    *)
(* lets the ADMIN and the DRIVER role through and hands the request to    *)
(* chargingService.updateOrderStatus without the caller.                   *)

Role(caller) ==
    IF caller = "admin" THEN "ADMIN" ELSE IF caller \in DriverArgs THEN "DRIVER" ELSE "CUSTOMER"

ChargingControllerUpdateStatus(caller, id, status, driverId) ==
    IF Role(caller) \notin {"ADMIN", "DRIVER"}
    THEN /\ last' = Response("charging.updateStatus", "forbidden")
         /\ UNCHANGED <<orders, chargingOrders, drivers, payouts, transfers, reqs>>
    ELSE ChargingUpdateStatus(id, status, driverId)

(* SpecDriverRoutes: a fuel and a charging order, both held by one driver *)
(* or by nobody, and the status routes open to drivers.                   *)
InitDriverRoutes ==
    /\ \E d \in DriverIds \cup {NULL} :
          /\ orders = [id \in OrderIds |->
                          IF d = NULL THEN NewOrder("u1", "CASH_ON_DELIVERY", 5, 2)
                          ELSE AssignedFuelOrder(d, "CASH_ON_DELIVERY", 5, 2)]
          /\ chargingOrders =
                [id \in ChargingOrderIds |->
                    IF d = NULL THEN NewChargingOrder("u1", "CARD_ON_DELIVERY", 3, 1)
                    ELSE AssignedChargingOrder(d, "CARD_ON_DELIVERY", 3, 1)]
    /\ InitRest

NextDriverRoutes ==
    \/ \E c \in DriverIds, id \in OrderArgs, s \in OrderStatus :
          DriverUpdateFuelOrderStatus(c, id, s) /\ UNCHANGED sideTables
    \/ \E c \in DriverIds, id \in ChargingOrderArgs, s \in ChargingOrderStatus :
          DriverUpdateChargingOrderStatus(c, id, s) /\ UNCHANGED sideTables
    \/ \E c \in DriverIds \cup {"u1"}, id \in ChargingOrderArgs,
          s \in ChargingOrderStatus, d \in DriverArgs \cup {NULL} :
          ChargingControllerUpdateStatus(c, id, s, d) /\ UNCHANGED sideTables

SpecDriverRoutes == InitDriverRoutes /\ [][NextDriverRoutes]_vars

----------------------------------------------------------------------------
(* SpecFrame: the status commands alone, on an order whose payment the    *)
(* processor's callbacks and the refunds have left in any payment status. *)
InitFrame ==
    /\ \E m \in PaymentMethod, ps \in PaymentStatus :
          \/ /\ orders = [id \in OrderIds |->
                            [NewOrder("u1", m, 5, 2) EXCEPT !.paymentStatus = ps]
                            @@ [totalAmount |-> 10]]
             /\ chargingOrders = EmptyTable
          \/ /\ orders = EmptyTable
             /\ chargingOrders = [id \in ChargingOrderIds |->
                            [NewChargingOrder("u1", m, 3, 1) EXCEPT !.paymentStatus = ps]
                            @@ [totalAmount |-> 6]]
    /\ InitRest

NextFrame ==
    \/ \E id \in OrderIds, s \in OrderStatus, d \in DriverIds \cup {NULL} :
          AdminUpdateOrderStatus(id, s, d) /\ UNCHANGED sideTables
    \/ \E id \in OrderIds, d \in DriverIds : AdminAssignDriver(id, d)
          /\ UNCHANGED sideTables
    \/ \E c \in DriverIds, id \in OrderIds, s \in OrderStatus :
          DriverUpdateFuelOrderStatus(c, id, s) /\ UNCHANGED sideTables
    \/ \E u \in Users, id \in OrderIds, r \in Reasons : CustomerCancelOrder(u, id, r)
          /\ UNCHANGED sideTables
    \/ \E id \in ChargingOrderIds, s \in ChargingOrderStatus, d \in DriverIds \cup {NULL} :
          AdminUpdateChargingOrderStatus(id, s, d) /\ UNCHANGED sideTables
    \/ \E id \in ChargingOrderIds, d \in DriverIds : AdminAssignChargingOrderDriver(id, d)
          /\ UNCHANGED sideTables
    \/ \E c \in DriverIds, id \in ChargingOrderIds, s \in ChargingOrderStatus :
          DriverUpdateChargingOrderStatus(c, id, s) /\ UNCHANGED sideTables
    \/ \E id \in ChargingOrderIds, s \in ChargingOrderStatus, d \in DriverIds \cup {NULL} :
          ChargingUpdateStatus(id, s, d) /\ UNCHANGED sideTables
    \/ \E u \in Users \cup {"admin"}, id \in ChargingOrderIds, r \in Reasons :
          ChargingCancel(u, id, r) /\ UNCHANGED sideTables

SpecFrame == InitFrame /\ [][NextFrame]_vars

----------------------------------------------------------------------------
(* SpecAssign: two fuel orders and a charging order, the admin's          *)
(* assignments, and the drivers' flags changing in between.               *)
InitAssign ==
    /\ orders = [id \in EarningsOrderIds |-> NewOrder("u1", "CASH_ON_DELIVERY", 5, 2)]
    /\ chargingOrders =
          [id \in ChargingOrderIds |-> NewChargingOrder("u1", "CARD_ON_DELIVERY", 3, 1)]
    /\ InitRest

NextAssign ==
    \/ \E id \in EarningsOrderIds \cup {"o0"}, d \in DriverArgs : AdminAssignDriver(id, d)
          /\ UNCHANGED sideTables
    \/ \E id \in ChargingOrderArgs, d \in DriverArgs : AdminAssignChargingOrderDriver(id, d)
          /\ UNCHANGED sideTables
    \/ NextDrivers /\ UNCHANGED sideTables

SpecAssign == InitAssign /\ [][NextAssign]_vars

----------------------------------------------------------------------------
(* Properties *)

TotalEarned(driverId) == EarnedFuel(orders, driverId) + EarnedCharging(chargingOrders, driverId)
AvailableBalance(driverId) ==
    GetDriverEarnings(orders, chargingOrders, payouts, driverId).availableBalance

(* C1: under every interleaving of concurrent payout requests, the sum of  *)
(* a driver's SUCCEEDED payouts never exceeds the driver's totalEarned.    *)
C1_PaidOutWithinEarned ==
    \A d \in DriverIds : PaidOut(payouts, d) <= TotalEarned(d)

(* C2 as stated: a payout request of an existing driver for more than the  *)
(* available balance fails with the balance error, makes no transfer and   *)
(* writes no payout row.                                                   *)
C2_OverBalanceIsBalanceError ==
    [][\A d \in DriverIds :
          LET balance == AvailableBalance(d) IN
          \A a \in {x \in Amounts : x > balance}, rail \in PayoutRail :
             RequestPayout(d, a, rail[1], rail[2])
             => /\ last'.result = "exceeds_balance"
                /\ payouts' = payouts
                /\ transfers' = transfers]_vars

(* C2 amended: such a request always fails, makes no transfer and writes   *)
(* no payout row; the error is the balance error when the driver has a     *)
(* payout destination and the payout-method error when the driver has none.*)
C2_OverBalanceRejected ==
    [][\A d \in DriverIds :
          LET balance == AvailableBalance(d) IN
          \A a \in {x \in Amounts : x > balance}, rail \in PayoutRail :
             RequestPayout(d, a, rail[1], rail[2])
             => /\ last'.result = IF drivers[d].stripeConnectAccountId = NULL
                                  THEN "no_payout_method" ELSE "exceeds_balance"
                /\ payouts' = payouts
                /\ transfers' = transfers]_vars

(* A request was refused for exceeding a balance that an earlier payout    *)
(* had already reduced.                                                    *)
C2_Witness ==
    /\ last = Response("driver.requestPayout", "exceeds_balance")
    /\ PaidOut(payouts, "d1") > 0
    /\ AvailableBalance("d1") > 0

(* C3: no assignment is written for a driver who is unavailable or         *)
(* inactive at the moment the order row is written.                        *)
C3_AssignWritesOnlyAvailableDriver ==
    [][\A p \in Procs :
          (reqs[p].pc = "update" /\ reqs'[p].pc = "done")
          => DriverCheck(drivers, reqs[p].driverId) = "ok"]_vars

(* C4: every command that names a driver for an order fails, and leaves    *)
(* the order as it is, when that driver has no row or is unavailable or    *)
(* inactive.                                                               *)
C4_UnassignableDriverRejected ==
    [][/\ \A id \in OrderArgs, st \in OrderStatus, d \in DriverArgs :
             (AdminUpdateOrderStatus(id, st, d) /\ DriverCheck(drivers, d) # "ok")
             => (last'.result # "ok" /\ orders' = orders)
       /\ \A id \in OrderArgs, d \in DriverArgs :
             (AdminAssignDriver(id, d) /\ DriverCheck(drivers, d) # "ok")
             => (last'.result # "ok" /\ orders' = orders)
       /\ \A id \in ChargingOrderArgs, st \in ChargingOrderStatus, d \in DriverArgs :
             (AdminUpdateChargingOrderStatus(id, st, d) /\ DriverCheck(drivers, d) # "ok")
             => (last'.result # "ok" /\ chargingOrders' = chargingOrders)
       /\ \A id \in ChargingOrderArgs, d \in DriverArgs :
             (AdminAssignChargingOrderDriver(id, d) /\ DriverCheck(drivers, d) # "ok")
             => (last'.result # "ok" /\ chargingOrders' = chargingOrders)
       /\ \A id \in ChargingOrderArgs, st \in ChargingOrderStatus, d \in DriverArgs :
             (ChargingUpdateStatus(id, st, d) /\ DriverCheck(drivers, d) # "ok")
             => (last'.result # "ok" /\ chargingOrders' = chargingOrders)]_vars

(* C5: a successful assignment sets the order's driverId to the given      *)
(* driver; a PENDING fuel order becomes CONFIRMED, a PENDING charging      *)
(* order becomes ASSIGNED, and any other status is kept.                   *)
C5_AssignEffect ==
    [][/\ \A id \in OrderIds, d \in DriverArgs :
             (AdminAssignDriver(id, d) /\ last'.result = "ok")
             => /\ orders'[id].driverId = d
                /\ orders'[id].status = IF orders[id].status = "PENDING"
                                        THEN "CONFIRMED" ELSE orders[id].status
       /\ \A id \in ChargingOrderIds, d \in DriverArgs :
             (AdminAssignChargingOrderDriver(id, d) /\ last'.result = "ok")
             => /\ chargingOrders'[id].driverId = d
                /\ chargingOrders'[id].status = IF chargingOrders[id].status = "PENDING"
                                                THEN "ASSIGNED"
                                                ELSE chargingOrders[id].status]_vars

(* A driver was assigned to a fuel order already in transit, which it left *)
(* in transit.                                                             *)
C5_Witness ==
    /\ last = Response("admin.assignDriver", "ok")
    /\ "o1" \in DOMAIN orders
    /\ orders["o1"].status = "IN_TRANSIT"
    /\ orders["o1"].driverId = "d2"

(* C6: once a fuel order is DELIVERED or CANCELLED no command changes its  *)
(* status.                                                                 *)
C6_TerminalStatusKept ==
    [][\A id \in OrderIds :
          orders[id].status \in {"DELIVERED", "CANCELLED"}
          => orders'[id].status = orders[id].status]_vars

AllowedTransitions ==
    {<<"PENDING", "CONFIRMED">>, <<"CONFIRMED", "DISPATCHED">>,
     <<"DISPATCHED", "IN_TRANSIT">>, <<"IN_TRANSIT", "DELIVERED">>}
    \cup {<<st, "CANCELLED">> : st \in OrderStatus \ {"DELIVERED", "CANCELLED"}}

(* C7: every change of a fuel order's status is an edge of the allowed     *)
(* transition graph.                                                       *)
C7_OnlyAllowedTransitions ==
    [][\A id \in OrderIds :
          orders'[id].status # orders[id].status
          => <<orders[id].status, orders'[id].status>> \in AllowedTransitions]_vars

(* C8: a fuel order that enters DELIVERED with a pending payment and a     *)
(* payment method other than ONLINE is marked PAID by the same write, and  *)
(* no fuel order is ever DELIVERED, not ONLINE and still PENDING.          *)
C8_DeliverySettlesPayment ==
    /\ [](\A id \in DOMAIN orders :
             ~ /\ orders[id].status = "DELIVERED"
               /\ orders[id].paymentMethod # "ONLINE"
               /\ orders[id].paymentStatus = "PENDING")
    /\ [][\A id \in OrderIds :
             (/\ orders'[id].status = "DELIVERED"
              /\ orders[id].status # "DELIVERED"
              /\ orders[id].paymentStatus = "PENDING"
              /\ orders[id].paymentMethod # "ONLINE")
             => orders'[id].paymentStatus = "PAID"]_vars

(* The driver delivered a cash-on-delivery order, which is now PAID. *)
C8_Witness ==
    /\ last = Response("driver.updateFuelOrderStatus", "ok")
    /\ orders["o1"].status = "DELIVERED"
    /\ orders["o1"].paymentMethod = "CASH_ON_DELIVERY"
    /\ orders["o1"].paymentStatus = "PAID"

(* C9: a customer's cancel succeeds, setting CANCELLED, exactly when the   *)
(* caller owns the order and its status is PENDING or CONFIRMED; otherwise *)
(* it fails and leaves status, cancelledAt and cancellationReason alone.   *)
C9_CustomerCancel ==
    [][\A u \in Users, id \in OrderIds, r \in Reasons :
          CustomerCancelOrder(u, id, r)
          => IF orders[id].userId = u /\ orders[id].status \in {"PENDING", "CONFIRMED"}
             THEN last'.result = "ok" /\ orders'[id].status = "CANCELLED"
             ELSE /\ last'.result # "ok"
                  /\ orders'[id].status = orders[id].status
                  /\ orders'[id].cancelledAt = orders[id].cancelledAt
                  /\ orders'[id].cancellationReason = orders[id].cancellationReason]_vars

(* The owner's cancel of a dispatched order was refused. *)
C9_Witness ==
    /\ last = Response("order.cancel", "already_dispatched")
    /\ orders["o1"].status = "DISPATCHED"
    /\ orders["o1"].cancelledAt = NULL

(* C10: a DELIVERED fuel order has deliveredAt set and a CANCELLED fuel    *)
(* order has cancelledAt set.                                              *)
C10_TerminalStatusStamped ==
    \A id \in DOMAIN orders :
       /\ orders[id].status = "DELIVERED" => orders[id].deliveredAt # NULL
       /\ orders[id].status = "CANCELLED" => orders[id].cancelledAt # NULL

(* C17: a charging order that enters COMPLETED with a pending payment and *)
(* a payment method other than ONLINE is marked PAID by the same write,    *)
(* and no charging order is ever COMPLETED, not ONLINE and still PENDING.  *)
C17_CompletionSettlesPayment ==
    /\ [](\A id \in DOMAIN chargingOrders :
             ~ /\ chargingOrders[id].status = "COMPLETED"
               /\ chargingOrders[id].paymentMethod # "ONLINE"
               /\ chargingOrders[id].paymentStatus = "PENDING")
    /\ [][\A id \in ChargingOrderIds :
             (/\ chargingOrders'[id].status = "COMPLETED"
              /\ chargingOrders[id].status # "COMPLETED"
              /\ chargingOrders[id].paymentStatus = "PENDING"
              /\ chargingOrders[id].paymentMethod # "ONLINE")
             => chargingOrders'[id].paymentStatus = "PAID"]_vars

(* C18: a charging order IN_PROGRESS has startedAt set, one COMPLETED has  *)
(* completedAt set and one CANCELLED has cancelledAt set.                  *)
C18_ChargingStatusStamped ==
    \A id \in DOMAIN chargingOrders :
       /\ chargingOrders[id].status = "IN_PROGRESS" => chargingOrders[id].startedAt # NULL
       /\ chargingOrders[id].status = "COMPLETED" => chargingOrders[id].completedAt # NULL
       /\ chargingOrders[id].status = "CANCELLED" => chargingOrders[id].cancelledAt # NULL

(* C19: a customer's cancel of a charging order succeeds exactly when the  *)
(* caller owns the order and its status is neither COMPLETED nor           *)
(* CANCELLED; it then sets CANCELLED, cancelledAt and the reason given.    *)
(* Otherwise it fails and leaves the order as it is.                       *)
C19_CustomerCancelCharging ==
    [][\A u \in Users, id \in ChargingOrderIds, r \in Reasons :
          ChargingCancel(u, id, r)
          => IF /\ chargingOrders[id].userId = u
                /\ chargingOrders[id].status \notin {"COMPLETED", "CANCELLED"}
             THEN /\ last'.result = "ok"
                  /\ chargingOrders'[id].status = "CANCELLED"
                  /\ chargingOrders'[id].cancelledAt # NULL
                  /\ r # NULL => chargingOrders'[id].cancellationReason = r
             ELSE /\ last'.result # "ok"
                  /\ chargingOrders' = chargingOrders]_vars

(* The owner cancelled a charging session that had started. *)
C19_Witness ==
    /\ last = Response("charging.cancel", "ok")
    /\ chargingOrders["c1"].status = "CANCELLED"
    /\ chargingOrders["c1"].startedAt # NULL
    /\ chargingOrders["c1"].completedAt = NULL
    /\ chargingOrders["c1"].cancellationReason = "changed my mind"

(* C20: a callback or manual confirm naming an order of the table its     *)
(* orderType selects sets that order's paymentStatus to PAID on success    *)
(* and to FAILED on failure, and changes nothing else in either table.     *)
C20_CallbackSetsPaymentStatus ==
    [][/\ \A e \in {"payment_intent.succeeded", "payment_intent.payment_failed"},
             id \in OrderIds :
             StripeWebhook(e, "fuel", id)
             => /\ orders' = [orders EXCEPT ![id].paymentStatus =
                                 IF e = "payment_intent.succeeded" THEN "PAID" ELSE "FAILED"]
                /\ chargingOrders' = chargingOrders
       /\ \A e \in {"payment_intent.succeeded", "payment_intent.payment_failed"},
             id \in ChargingOrderIds :
             StripeWebhook(e, "charging", id)
             => /\ chargingOrders' = [chargingOrders EXCEPT ![id].paymentStatus =
                                 IF e = "payment_intent.succeeded" THEN "PAID" ELSE "FAILED"]
                /\ orders' = orders
       /\ \A s \in IntentStatuses, id \in OrderIds :
             ConfirmPayment(s, "fuel", id)
             => /\ orders' = [orders EXCEPT ![id].paymentStatus =
                                 IF s = "succeeded" THEN "PAID" ELSE "FAILED"]
                /\ chargingOrders' = chargingOrders
       /\ \A s \in IntentStatuses, id \in ChargingOrderIds :
             ConfirmPayment(s, "charging", id)
             => /\ chargingOrders' = [chargingOrders EXCEPT ![id].paymentStatus =
                                 IF s = "succeeded" THEN "PAID" ELSE "FAILED"]
                /\ orders' = orders]_vars

(* A callback about the charging order was recorded while the fuel order   *)
(* kept the failure recorded before.                                       *)
C20_Witness ==
    /\ last = Response("payment.handleWebhook", "ok")
    /\ chargingOrders["c1"].paymentStatus = "PAID"
    /\ orders["o1"].paymentStatus = "FAILED"

(* The address a creation request names is the caller's own, and its      *)
(* coordinates are resolved (neither is null).                             *)
OwnAddress(request) ==
    /\ request.addressId \in DOMAIN Addresses
    /\ Addresses[request.addressId].userId = request.userId
ResolvedAddress(request) ==
    /\ OwnAddress(request)
    /\ Addresses[request.addressId].latitude # <<>>
    /\ Addresses[request.addressId].longitude # <<>>

(* C11: every created fuel order starts PENDING, with payment PENDING and  *)
(* no driver, whatever its payment method.                                 *)
C11_NewOrderPending ==
    (last.op = "order.create" /\ last.result = "ok")
    => \E id \in DOMAIN orders :
          /\ orders[id].paymentMethod = last.request.paymentMethod
          /\ orders[id].status = "PENDING"
          /\ orders[id].paymentStatus = "PENDING"
          /\ orders[id].driverId = NULL

(* An order to be paid online was created. *)
C11_Witness ==
    /\ last.op = "order.create"
    /\ last.result = "ok"
    /\ "o1" \in DOMAIN orders
    /\ orders["o1"].paymentMethod = "ONLINE"

(* C12: creating a fuel order fails and persists nothing when an item's    *)
(* quantity is below 50 or above 5000; with every quantity in 50..5000 and *)
(* the other preconditions met (items and a tip that is not negative, the  *)
(* caller's own address with resolved coordinates, available products) it  *)
(* succeeds.                                                               *)
C12_QuantityBounds ==
    [][last'.op = "order.create" =>
         LET r == last'.request
             outOfRange == \E i \in 1 .. Len(r.items) :
                              r.items[i].quantity < 50 \/ r.items[i].quantity > 5000
             met == /\ r.items # <<>>
                    /\ r.tip >= 0
                    /\ ResolvedAddress(r)
                    /\ \A i \in 1 .. Len(r.items) :
                          /\ r.items[i].productId \in DOMAIN Products
                          /\ Products[r.items[i].productId].isAvailable
         IN  /\ outOfRange => (last'.result # "ok" /\ orders' = orders)
             /\ (~outOfRange /\ met)
                => /\ last'.result = "ok"
                   /\ \E id \in DOMAIN orders' \ DOMAIN orders :
                         Len(orders'[id].orderItems) = Len(r.items)]_vars

(* C13: a creation request that passes the controller's validation fails   *)
(* with the address-not-geocoded error exactly when the caller's own       *)
(* address has a null coordinate; an address that is not the caller's      *)
(* fails and persists nothing.                                             *)
C13_GeocodedAddressAccepted ==
    [][(\/ /\ last'.op = "order.create"
           /\ last'.request.items # <<>>
           /\ last'.request.tip >= 0
        \/ /\ last'.op = "charging.create"
           /\ last'.request.numberOfCars \in 1 .. 10
           /\ Len(last'.request.carIds) = last'.request.numberOfCars)
       => LET r == last'.request IN
          /\ (last'.result = "address_not_geocoded")
             <=> (OwnAddress(r) /\ ~ResolvedAddress(r))
          /\ ~OwnAddress(r)
             => /\ last'.result # "ok"
                /\ orders' = orders
                /\ chargingOrders' = chargingOrders]_vars

(* C14: a created fuel order's totalAmount is within one cent of the sum   *)
(* of its stored fuelCost, deliveryFee, tax and tip.                       *)
C14_TotalWithinOneCent ==
    \A id \in DOMAIN orders :
       LET o == orders[id]
           difference == o.totalAmount - (o.fuelCost + o.deliveryFee + o.tax + o.tip)
       IN  -1000 <= difference /\ difference <= 1000

(* An order whose total is one cent above the sum of its rounded parts. *)
C14_Witness ==
    /\ last.op = "order.create"
    /\ "o1" \in DOMAIN orders
    /\ orders["o1"].totalAmount
          = orders["o1"].fuelCost + orders["o1"].deliveryFee + orders["o1"].tax
            + orders["o1"].tip + 1000

(* C15: a charging order is created only for 1..10 cars, as many car ids,  *)
(* all different and all the caller's; it then is PENDING with payment     *)
(* PENDING and has one association row per car.  A refused request         *)
(* persists nothing.                                                       *)
C15_ChargingCreatePreconditions ==
    [][last'.op = "charging.create" =>
         LET r == last'.request IN
         IF last'.result = "ok"
         THEN /\ r.numberOfCars \in 1 .. 10
              /\ Len(r.carIds) = r.numberOfCars
              /\ \A i \in 1 .. Len(r.carIds) :
                    /\ r.carIds[i] \in DOMAIN Cars
                    /\ Cars[r.carIds[i]].userId = r.userId
                    /\ \A j \in 1 .. Len(r.carIds) : r.carIds[i] = r.carIds[j] => i = j
              /\ \E id \in DOMAIN chargingOrders' \ DOMAIN chargingOrders :
                    /\ chargingOrders'[id].status = "PENDING"
                    /\ chargingOrders'[id].paymentStatus = "PENDING"
                    /\ Len(chargingOrders'[id].cars) = Len(r.carIds)
                    /\ \A i \in 1 .. Len(r.carIds) :
                          \E j \in 1 .. Len(r.carIds) :
                             chargingOrders'[id].cars[j] = r.carIds[i]
         ELSE chargingOrders' = chargingOrders]_vars

(* A charging order for two cars was created. *)
C15_Witness ==
    /\ last.op = "charging.create"
    /\ last.result = "ok"
    /\ last.request.numberOfCars = 2
    /\ "c1" \in DOMAIN chargingOrders
    /\ chargingOrders["c1"].cars = <<"k1", "k2">>

(* C16: a created charging order's baseFee is the per-car price of its     *)
(* duration (25, 45, 100, 350 dollars) times its number of cars, its tax   *)
(* is the tax on baseFee + deliveryFee, and its totalAmount is baseFee +   *)
(* deliveryFee + tax + tip rounded to cents.                               *)
C16_ChargingPricing ==
    \A id \in DOMAIN chargingOrders :
       LET o == chargingOrders[id]
           perCarPrice == CASE o.chargingDuration = "ONE_HOUR" -> 25
                            [] o.chargingDuration = "TWO_HOURS" -> 45
                            [] o.chargingDuration = "FIVE_HOURS" -> 100
                            [] o.chargingDuration = "TWENTY_FOUR_HOURS" -> 350
       IN  /\ o.numberOfCars \in 1 .. 10
           /\ o.baseFee = perCarPrice * o.numberOfCars * 100000
           /\ o.tax = CalculateTax(o.baseFee + o.deliveryFee)
           /\ o.totalAmount = RoundCents(o.baseFee + o.deliveryFee + o.tax + o.tip)

(* A full-day charge of ten cars was priced. *)
C16_Witness ==
    /\ last.op = "charging.create"
    /\ "c1" \in DOMAIN chargingOrders
    /\ chargingOrders["c1"].chargingDuration = "TWENTY_FOUR_HOURS"
    /\ chargingOrders["c1"].numberOfCars = 10
    /\ chargingOrders["c1"].baseFee = 350000000

(* C21: the payment-succeeded callback is idempotent.  Every delivery     *)
(* that finds its fuel order leaves it PAID; a second write of the same    *)
(* callback on the state the first one left gives that state again; and a  *)
(* delivery to an order that is already PAID changes no order and no       *)
(* driver's totalEarned.                                                   *)
C21_CallbackIdempotent ==
    [][\A t \in {"fuel", NULL}, id \in OrderIds :
          StripeWebhook("payment_intent.succeeded", t, id)
          => LET once == orders'
                 twice == [once EXCEPT ![id] =
                              StripeWebhookWrite(@, "payment_intent.succeeded")]
             IN  /\ once[id].paymentStatus = "PAID"
                 /\ twice = once
                 /\ \A d \in DriverIds : EarnedFuel(twice, d) = EarnedFuel(once, d)
                 /\ orders[id].paymentStatus = "PAID"
                    => /\ orders' = orders
                       /\ chargingOrders' = chargingOrders
                       /\ \A d \in DriverIds :
                             EarnedFuel(orders', d) + EarnedCharging(chargingOrders', d)
                                = TotalEarned(d)]_vars

(* The callback arrived for a delivered order that was paid online: the    *)
(* driver has earned its fee and tip.                                      *)
C21_Witness ==
    /\ last = Response("payment.handleWebhook", "ok")
    /\ orders["o1"].paymentMethod = "ONLINE"
    /\ orders["o1"].status = "DELIVERED"
    /\ orders["o1"].paymentStatus = "PAID"
    /\ orders["o1"].driverId = "d1"
    /\ TotalEarned("d1") = 7

(* C22: after a succeeded refund the order is REFUNDED when what has been  *)
(* refunded of its payment, over all refunds so far, is at least its       *)
(* totalAmount, and PAID otherwise.                                        *)
C22_RefundedWhenFullyRefunded ==
    (last.op = "payment.createRefund" /\ last.result = "succeeded"
       /\ Intents[last.request.paymentIntentId].orderId # NULL)
    => LET intent == last.request.paymentIntentId
           order == IF Intents[intent].orderType = "charging"
                    THEN chargingOrders[Intents[intent].orderId]
                    ELSE orders[Intents[intent].orderId]
       IN  order.paymentStatus =
              IF refunded[intent] >= order.totalAmount THEN "REFUNDED" ELSE "PAID"

(* What a row adds to a driver's earnings by the rule of C23. *)
Contribution(row, driverId, final) ==
    IF row.driverId = driverId /\ row.status = final /\ row.paymentStatus = "PAID"
    THEN row.deliveryFee + row.tip
    ELSE 0

EarnedByRule(driverId) ==
    Contribution(orders["o1"], driverId, "DELIVERED")
    + Contribution(orders["o2"], driverId, "DELIVERED")
    + Contribution(chargingOrders["c1"], driverId, "COMPLETED")

(* Two fuel orders with fee 5 and tip 2 and a charging order with fee 3    *)
(* and tip 1, all final, paid and the driver's.                            *)
ExampleOrders(driverId) ==
    /\ \A id \in EarningsOrderIds :
          /\ Contribution(orders[id], driverId, "DELIVERED") > 0
          /\ orders[id].deliveryFee = 5
          /\ orders[id].tip = 2
    /\ Contribution(chargingOrders["c1"], driverId, "COMPLETED") > 0
    /\ chargingOrders["c1"].deliveryFee = 3
    /\ chargingOrders["c1"].tip = 1

(* C23 as stated: totalEarned is the sum of deliveryFee + tip over exactly *)
(* the driver's final, paid orders, and the example orders give 16.        *)
C23_TotalEarnedExampleSixteen ==
    last.op = "driver.getEarnings"
    => /\ last.earnings.totalEarned = EarnedByRule(last.driverId)
       /\ ExampleOrders(last.driverId) => last.earnings.totalEarned = 16

(* C23 amended: the same rule; the example orders give 18.                 *)
C23_TotalEarned ==
    last.op = "driver.getEarnings"
    => /\ last.earnings.totalEarned = EarnedByRule(last.driverId)
       /\ ExampleOrders(last.driverId) => last.earnings.totalEarned = 18

(* The summary of a driver with the three example orders. *)
C23_Witness ==
    /\ last.op = "driver.getEarnings"
    /\ last.driverId = "d1"
    /\ ExampleOrders("d1")
    /\ last.earnings.totalEarned = 18

RECURSIVE SucceededByRule(_, _)
SucceededByRule(rows, driverId) ==
    IF rows = <<>> THEN 0
    ELSE (IF Head(rows).driverId = driverId /\ Head(rows).status \notin {"FAILED", "PENDING"}
          THEN Head(rows).amount ELSE 0)
         + SucceededByRule(Tail(rows), driverId)

(* C24: availableBalance is max(0, totalEarned - totalPaidOut), where      *)
(* totalPaidOut leaves out FAILED and PENDING payouts; it is never         *)
(* negative; canWithdraw is true exactly when it is at least 5.            *)
C24_AvailableBalance ==
    last.op = "driver.getEarnings"
    => LET e == last.earnings
           difference == e.totalEarned - SucceededByRule(payouts, last.driverId)
       IN  /\ e.totalPaidOut = SucceededByRule(payouts, last.driverId)
           /\ e.availableBalance = IF difference > 0 THEN difference ELSE 0
           /\ e.availableBalance >= 0
           /\ e.canWithdraw <=> e.availableBalance >= 5

(* totalEarned 16 with one SUCCEEDED payout of 10, and a FAILED one. *)
C24_Witness ==
    /\ last.op = "driver.getEarnings"
    /\ last.earnings.totalEarned = 16
    /\ Len(payouts) = 2
    /\ \E i \in 1 .. 2 : payouts[i].status = "SUCCEEDED" /\ payouts[i].amount = 10
    /\ \E i \in 1 .. 2 : payouts[i].status = "FAILED"
    /\ last.earnings.totalPaidOut = 10
    /\ last.earnings.availableBalance = 6
    /\ last.earnings.canWithdraw

(* C25: a payout request whose driver has no payout destination, or whose  *)
(* amount is not positive, below 5 or above the available balance, writes  *)
(* no payout row and makes no transfer: a request that wrote a row or made *)
(* a transfer had a destination and an amount of at least 5 and at most    *)
(* the balance it found.  A request for exactly the balance, when that is  *)
(* at least 5, passes validation.                                          *)
C25_InvalidPayoutWritesNothing ==
    [][/\ (last'.op = "driver.requestPayout"
             /\ (payouts' # payouts \/ transfers' # transfers))
          => LET row == payouts'[Len(payouts')] IN
             /\ Len(payouts') = Len(payouts) + 1
             /\ drivers[row.driverId].stripeConnectAccountId # NULL
             /\ row.amount > 0
             /\ row.amount >= 5
             /\ row.amount <= AvailableBalance(row.driverId)
       /\ \A d \in DriverIds :
             LET balance == AvailableBalance(d) IN
             (drivers[d].stripeConnectAccountId # NULL /\ balance >= 5)
             => \A rail \in PayoutRail :
                   RequestPayout(d, balance, rail[1], rail[2])
                   => last'.result \in {"ok", "transfer_failed", "account_not_found"}]_vars

(* A payout of the driver's whole balance was made. *)
C25_Witness ==
    /\ last = Response("driver.requestPayout", "ok")
    /\ Len(payouts) = 1
    /\ payouts[1].status = "SUCCEEDED"
    /\ payouts[1].amount = TotalEarned(payouts[1].driverId)
    /\ AvailableBalance(payouts[1].driverId) = 0

C27_LedgerAppendOnly ==
    [][/\ Len(payouts') >= Len(payouts)
       /\ \A i \in 1 .. Len(payouts) : payouts'[i] = payouts[i]
       /\ \A i \in 1 .. Len(payouts') : payouts'[i].status \in {"SUCCEEDED", "FAILED"}]_vars

(* C28: a notification is started only by a handler whose order write is  *)
(* committed in the same step and whose response is the success; a step   *)
(* of a notification, failing or not, leaves the orders and the response  *)
(* as they were.                                                           *)
C28_NotificationAfterCommit ==
    [][/\ Len(tasks') > Len(tasks) =>
            /\ last'.result = "ok"
            /\ \A i \in Len(tasks) + 1 .. Len(tasks') :
                  LET t == tasks'[i] IN
                  /\ t.pc = "started"
                  /\ t.data.orderId \in DOMAIN orders'
                  /\ t.data.type = "order_status" =>
                        orders'[t.data.orderId].status = t.data.status
                  /\ t.data.type = "order_assigned" =>
                        /\ orders'[t.data.orderId].driverId # NULL
                        /\ t.to = "driver" => orders'[t.data.orderId].driverId = t.id
       /\ NotifyStep => UNCHANGED <<orders, chargingOrders, last>>]_vars

(* A notification of the assignment was rejected; the order still names   *)
(* the driver and the response is still the success.                      *)
C28_Witness ==
    \E i \in 1 .. Len(tasks) :
        /\ tasks[i].pc = "rejected"
        /\ tasks[i].to = "driver"
        /\ orders[tasks[i].data.orderId].driverId = tasks[i].id
        /\ last = Response("admin.assignDriver", "ok")

(* C29: a ping whose coordinates are numbers in range overwrites the one  *)
(* row of its driver with them; a ping with a coordinate out of range or  *)
(* not a number is rejected and leaves every row as it was.               *)
C29_LatestValidPing ==
    [][last'.op = "driver.updateLocation" =>
          LET lat == last'.request.latitude
              lon == last'.request.longitude
              d == last'.driverId
              numeric == lat.t \in {"number", "numeric"} /\ lon.t \in {"number", "numeric"}
              valid == /\ numeric
                       /\ lat.n >= -90 /\ lat.n <= 90
                       /\ lon.n >= -180 /\ lon.n <= 180
          IN  IF valid /\ d \in DOMAIN drivers
              THEN /\ last'.result = "ok"
                   /\ locations' = Upsert(locations, d,
                                          [latitude |-> lat.n, longitude |-> lon.n])
              ELSE /\ last'.result # "ok"
                   /\ locations' = locations]_vars

(* C30: a creation whose first number is taken goes on with the second    *)
(* and fails only when that one is taken too; no two orders of a table    *)
(* share an orderNumber.                                                   *)
C30_RetryOnCollision ==
    [][/\ \A a, b \in DOMAIN orders' :
             a # b => orders'[a].orderNumber # orders'[b].orderNumber
       /\ \A a, b \in DOMAIN chargingOrders' :
             a # b => chargingOrders'[a].orderNumber # chargingOrders'[b].orderNumber
       /\ last'.op = "order.create" /\ CreateOrderCheck(last'.request) = "ok" =>
             LET n == last'.numbers IN
             IF ~NumberTaken(orders, n[1]) \/ ~NumberTaken(orders, n[2])
             THEN /\ last'.result = "ok"
                  /\ Cardinality(DOMAIN orders') = Cardinality(DOMAIN orders) + 1
             ELSE /\ last'.result = "error"
                  /\ orders' = orders
       /\ last'.op = "charging.create" /\ CreateChargingOrderCheck(last'.request) = "ok" =>
             LET n == last'.numbers IN
             IF ~NumberTaken(chargingOrders, n[1]) \/ ~NumberTaken(chargingOrders, n[2])
             THEN /\ last'.result = "ok"
                  /\ Cardinality(DOMAIN chargingOrders')
                        = Cardinality(DOMAIN chargingOrders) + 1
             ELSE /\ last'.result = "error"
                  /\ chargingOrders' = chargingOrders]_vars

(* C31: once a customer's cancel has committed, the write of an           *)
(* assignment leaves the order CANCELLED.                                  *)
C31_CancelNotUndoneByAssign ==
    [][\A p \in Procs :
          /\ AssignUpdate(p)
          /\ reqs[p].op = "admin.assignDriver"
          /\ orders[reqs[p].orderId].status = "CANCELLED"
          => orders'[reqs[p].orderId].status = "CANCELLED"]_vars

(* C32: the write of a customer's cancel never cancels an order that a    *)
(* committed write has set to DISPATCHED, IN_TRANSIT or DELIVERED.        *)
C32_CancelNotAfterDispatch ==
    [][\A p \in Procs :
          /\ CancelUpdate(p)
          /\ orders[reqs[p].orderId].status \in {"DISPATCHED", "IN_TRANSIT", "DELIVERED"}
          => orders'[reqs[p].orderId].status # "CANCELLED"]_vars

(* C33: with commands run one at a time, what a driver was paid out never *)
(* exceeds what the earnings summary counts as earned.                    *)
C33_PaidOutWithinEarnedSequential ==
    \A d \in DriverIds :
        LET earnings == GetDriverEarnings(orders, chargingOrders, payouts, d)
        IN  earnings.totalPaidOut <= earnings.totalEarned

(* C34: every transfer made is recorded by exactly one SUCCEEDED payout   *)
(* row of its driver and amount, so the balance went down by it.          *)
C34_TransferRecorded ==
    \A i \in 1 .. Len(transfers) :
        Cardinality({j \in 1 .. Len(payouts) :
                        /\ payouts[j].stripeTransferId = TransferId(i)
                        /\ payouts[j].status = "SUCCEEDED"
                        /\ payouts[j].driverId = transfers[i].driverId
                        /\ payouts[j].amount = transfers[i].amount}) = 1

(* C35: on every route a driver reaches, a request about an order that is *)
(* held by another driver or by nobody fails and leaves the order as it   *)
(* was.                                                                    *)
C35_DriverChangesOwnOrdersOnly ==
    [][\A c \in DriverIds :
          /\ \A id \in OrderArgs, s \in OrderStatus :
                /\ DriverUpdateFuelOrderStatus(c, id, s)
                /\ (id \notin DOMAIN orders \/ orders[id].driverId # c)
                => (last'.result # "ok" /\ orders' = orders)
          /\ \A id \in ChargingOrderArgs, s \in ChargingOrderStatus :
                /\ DriverUpdateChargingOrderStatus(c, id, s)
                /\ (id \notin DOMAIN chargingOrders \/ chargingOrders[id].driverId # c)
                => (last'.result # "ok" /\ chargingOrders' = chargingOrders)
          /\ \A id \in ChargingOrderArgs, s \in ChargingOrderStatus,
                d \in DriverArgs \cup {NULL} :
                /\ ChargingControllerUpdateStatus(c, id, s, d)
                /\ (id \notin DOMAIN chargingOrders \/ chargingOrders[id].driverId # c)
                => (last'.result # "ok" /\ chargingOrders' = chargingOrders)]_vars

(* C36: a status command, a cancel or an assignment leaves totalAmount,   *)
(* deliveryFee and tip as they were, and leaves paymentStatus as it was   *)
(* unless it delivers or completes an order not paid online whose payment *)
(* was PENDING, which it sets to PAID.                                     *)
C36_StatusCommandsKeepPayment ==
    [][/\ \A id \in DOMAIN orders :
             LET old == orders[id]
                 new == orders'[id]
             IN  /\ new.totalAmount = old.totalAmount
                 /\ new.deliveryFee = old.deliveryFee
                 /\ new.tip = old.tip
                 /\ new.paymentStatus # old.paymentStatus =>
                       /\ old.paymentMethod # "ONLINE" /\ old.paymentStatus = "PENDING"
                       /\ new.status = "DELIVERED" /\ new.paymentStatus = "PAID"
       /\ \A id \in DOMAIN chargingOrders :
             LET old == chargingOrders[id]
                 new == chargingOrders'[id]
             IN  /\ new.totalAmount = old.totalAmount
                 /\ new.deliveryFee = old.deliveryFee
                 /\ new.tip = old.tip
                 /\ new.paymentStatus # old.paymentStatus =>
                       /\ old.paymentMethod # "ONLINE" /\ old.paymentStatus = "PENDING"
                       /\ new.status = "COMPLETED" /\ new.paymentStatus = "PAID"]_vars

(* The admin delivered an order paid online whose payment had been        *)
(* refunded; the payment is still REFUNDED.                                *)
C36_Witness ==
    /\ last = Response("admin.updateOrderStatus", "ok")
    /\ \E id \in DOMAIN orders :
          /\ orders[id].status = "DELIVERED"
          /\ orders[id].paymentMethod = "ONLINE"
          /\ orders[id].paymentStatus = "REFUNDED"
          /\ orders[id].totalAmount = 10

(* C37: a paymentStatus of PAID is never set to FAILED, and one of        *)
(* REFUNDED is never set back to PAID.                                     *)
C37_PaymentStatusNeverBackwards ==
    [][/\ \A id \in DOMAIN orders :
             /\ orders[id].paymentStatus = "PAID" => orders'[id].paymentStatus # "FAILED"
             /\ orders[id].paymentStatus = "REFUNDED" => orders'[id].paymentStatus # "PAID"
       /\ \A id \in DOMAIN chargingOrders :
             /\ chargingOrders[id].paymentStatus = "PAID"
                   => chargingOrders'[id].paymentStatus # "FAILED"
             /\ chargingOrders[id].paymentStatus = "REFUNDED"
                   => chargingOrders'[id].paymentStatus # "PAID"]_vars

(* C38: an assignment changes nothing but driverId and status of the      *)
(* order it names: the drivers' rows and the other orders stay as they    *)
(* were, and the driver it assigned is still assignable.                  *)
C38_AssignTouchesOnlyItsOrder ==
    [][/\ \A id \in EarningsOrderIds \cup {"o0"}, d \in DriverArgs :
             AdminAssignDriver(id, d) =>
                /\ drivers' = drivers
                /\ chargingOrders' = chargingOrders
                /\ \A o \in DOMAIN orders :
                      \A f \in DOMAIN orders[o] :
                         (o # id \/ f \notin {"driverId", "status"})
                         => orders'[o][f] = orders[o][f]
                /\ last'.result = "ok" => DriverCheck(drivers', d) = "ok"
       /\ \A id \in ChargingOrderArgs, d \in DriverArgs :
             AdminAssignChargingOrderDriver(id, d) =>
                /\ drivers' = drivers
                /\ orders' = orders
                /\ \A o \in DOMAIN chargingOrders :
                      \A f \in DOMAIN chargingOrders[o] :
                         (o # id \/ f \notin {"driverId", "status"})
                         => chargingOrders'[o][f] = chargingOrders[o][f]
                /\ last'.result = "ok" => DriverCheck(drivers', d) = "ok"]_vars

(* Driver d1 was just assigned an order while holding another fuel order  *)
(* and the charging order, none of them finished, and is still available. *)
C38_Witness ==
    /\ last = Response("admin.assignDriver", "ok")
    /\ \A id \in EarningsOrderIds :
          orders[id].driverId = "d1" /\ orders[id].status = "CONFIRMED"
    /\ \A id \in ChargingOrderIds :
          chargingOrders[id].driverId = "d1" /\ chargingOrders[id].status = "ASSIGNED"
    /\ drivers["d1"].isAvailable /\ drivers["d1"].isActive

(* C39: a fuel order that is DISPATCHED, IN_TRANSIT or DELIVERED and a    *)
(* charging order that is IN_PROGRESS or COMPLETED has a driver.          *)
C39_FulfilledOrderHasDriver ==
    /\ \A id \in DOMAIN orders :
          orders[id].status \in {"DISPATCHED", "IN_TRANSIT", "DELIVERED"}
          => orders[id].driverId # NULL
    /\ \A id \in DOMAIN chargingOrders :
          chargingOrders[id].status \in {"IN_PROGRESS", "COMPLETED"}
          => chargingOrders[id].driverId # NULL

====
